---- MODULE Spec2Model ----
(***************************************************************************)
(* A model of the CUPS buffered file layer (cups/file.c in libcups):       *)
(* the handle record, the raw I/O primitives, the flusher, the gzip        *)
(* writer and the fill engine, the seek engine and the public operations.  *)
(*                                                                         *)
(* Bytes are the integers 0..255.  The two 4096-byte arrays of the handle  *)
(* are scaled down to BufSize bytes so that "several buffers" stays small. *)
(* zlib is an external library: deflate/inflate are modelled by a          *)
(* streaming run-length codec with the same calling convention (input and  *)
(* output windows, internal pending state, Z_* status codes), and crc32 by *)
(* an order-sensitive 32-bit checksum kept as four little-endian bytes.    *)
(***************************************************************************)
EXTENDS Integers, Sequences, FiniteSets, TLC

VARIABLES
  fp,      \* the cups_file_t record (struct _cups_file_s)
  os,      \* the descriptor: file bytes, offset, bytes written, fault plans
  call,    \* the last public operation: its name, arguments and result
  gh,      \* history kept for the properties (data taken, data delivered)
  pc       \* position of the driving scenario

vars == <<fp, os, call, gh, pc>>

(***************************************************************************)
(* Bounds of the model                                                     *)
(***************************************************************************)
\* sizeof(fp->buf) and sizeof(fp->cbuf), 4096 in the source, scaled down
BufSize == 12
\* longest run the stand-in codec packs into one token
MaxRun == 3
\* number of whole buffers in the longest data written or read
MaxBufs == 3

(***************************************************************************)
(* Program constants                                                       *)
(***************************************************************************)
NULL == -1
Z_OK == 0
Z_STREAM_END == 1
Z_DATA_ERROR == -3
Z_BUF_ERROR == -5

Z_STREAM_ERROR == -2
Z_DEFLATED == 8
HeaderLen == 10
TrailerLen == 8
PrintfInitial == 1024
PrintfMax == 65535
EIO == 5
EINTR == 4
EAGAIN == 11
EPERM == 1
ENOENT == 2
EEXIST == 17
EISDIR == 21
\* 0664, the permissions cupsFileOpen passes when the mode names none
DefaultPerm == 436

(***************************************************************************)
(* Sequence helpers                                                        *)
(***************************************************************************)
Min(a, b) == IF a < b THEN a ELSE b

B2I(b) == IF b THEN 1 ELSE 0

Take(s, n) == SubSeq(s, 1, Min(n, Len(s)))

Drop(s, n) == SubSeq(s, Min(n, Len(s)) + 1, Len(s))

\* n copies of byte b
Rep(b, n) == [i \in 1..n |-> b]

\* memcpy(arr + at, data, Len(data)) on an array kept as a sequence
MemCpy(arr, at, data) ==
  [i \in 1..Len(arr) |-> IF i > at /\ i <= at + Len(data) THEN data[i - at] ELSE arr[i]]

(***************************************************************************)
(* crc32() of zlib: a 32-bit value kept as four little-endian bytes        *)
(***************************************************************************)
CrcInit == <<0, 0, 0, 0>>

CrcByte(c, b) ==
  << (c[1] + b + 1) % 256, (c[2] + c[1] + 1) % 256, (c[3] + c[2]) % 256, (c[4] + c[3]) % 256 >>

RECURSIVE crc32(_, _)
crc32(c, data) ==
  IF data = <<>> THEN c ELSE crc32(CrcByte(c, Head(data)), Tail(data))

\* the four little-endian bytes of a small non-negative off_t, modulo 2^32
LE32(n) == << n % 256, (n \div 256) % 256, (n \div 65536) % 256, (n \div 16777216) % 256 >>

(***************************************************************************)
(* zlib stand-in: the codec state inside z_stream                          *)
(***************************************************************************)
\* misuse records a lifecycle error: a release of a state that is not
\* initialised, or an initialisation over a state that still is
ZNone ==
  [kind |-> "none", st |-> "none", cnt |-> 0, byte |-> 0, pend |-> <<>>, fin |-> FALSE,
   misuse |-> FALSE]

deflateInit2(z) ==
  [ZNone EXCEPT !.kind = "deflate", !.st = "run", !.misuse = z.misuse \/ z.kind # "none"]

inflateInit2(z) ==
  [ZNone EXCEPT !.kind = "inflate", !.st = "count", !.misuse = z.misuse \/ z.kind # "none"]

\* one pass of deflate(): drain pending output, then take input bytes while
\* nothing is pending; with finish, close the last run and emit the end marker
RECURSIVE DeflateLoop(_, _, _, _, _, _)
DeflateLoop(z, in, out, room, finish, used) ==
  LET k  == Min(Len(z.pend), room - Len(out))
      z1 == [z EXCEPT !.pend = Drop(z.pend, k)]
      o1 == out \o Take(z.pend, k)
  IN  IF z1.pend # <<>> THEN [z |-> z1, out |-> o1, used |-> used]
      ELSE IF in # <<>> THEN
        LET b == Head(in) IN
        IF z1.cnt > 0 /\ z1.byte = b /\ z1.cnt < MaxRun
          THEN DeflateLoop([z1 EXCEPT !.cnt = @ + 1], Tail(in), o1, room, finish, used + 1)
        ELSE IF z1.cnt > 0
          THEN DeflateLoop([z1 EXCEPT !.pend = <<z1.cnt, z1.byte>>, !.cnt = 1, !.byte = b],
                           Tail(in), o1, room, finish, used + 1)
        ELSE DeflateLoop([z1 EXCEPT !.cnt = 1, !.byte = b], Tail(in), o1, room, finish, used + 1)
      ELSE IF finish /\ ~z1.fin THEN
        DeflateLoop([z1 EXCEPT !.pend = (IF z1.cnt > 0 THEN <<z1.cnt, z1.byte>> ELSE <<>>) \o <<0>>,
                               !.cnt = 0, !.fin = TRUE],
                    in, o1, room, finish, used)
      ELSE [z |-> z1, out |-> o1, used |-> used]

\* deflate(&stream, flush): the new codec state, the bytes produced (at most
\* room), the number of input bytes consumed and the status
deflate(z, in, room, finish) ==
  IF z.kind # "deflate"
    THEN [z |-> [z EXCEPT !.misuse = TRUE], out |-> <<>>, used |-> 0, status |-> Z_STREAM_ERROR]
  ELSE IF room = 0 \/ (z.fin /\ in # <<>>)
    THEN [z |-> z, out |-> <<>>, used |-> 0, status |-> Z_BUF_ERROR]
    ELSE LET Result(r) ==
               [z |-> r.z, out |-> r.out, used |-> r.used,
                status |-> IF finish /\ r.z.fin /\ r.z.pend = <<>> THEN Z_STREAM_END
                           ELSE IF r.used > 0 \/ r.out # <<>> \/ r.z # z THEN Z_OK
                           ELSE Z_BUF_ERROR]
         IN  Result(DeflateLoop(z, in, <<>>, room, finish, 0))

\* one pass of inflate(): decode tokens until the input is used up, the
\* output window is full, the end marker is met or the data is invalid
RECURSIVE InflateLoop(_, _, _, _, _)
InflateLoop(z, in, out, room, used) ==
  CASE z.st = "count" ->
         IF in = <<>> THEN [z |-> z, out |-> out, used |-> used]
         ELSE IF Head(in) = 0
           THEN [z |-> [z EXCEPT !.st = "end"], out |-> out, used |-> used + 1]
         ELSE IF Head(in) > MaxRun
           THEN [z |-> [z EXCEPT !.st = "bad"], out |-> out, used |-> used + 1]
         ELSE InflateLoop([z EXCEPT !.st = "byte", !.cnt = Head(in)], Tail(in), out, room, used + 1)
    [] z.st = "byte" ->
         IF in = <<>> THEN [z |-> z, out |-> out, used |-> used]
         ELSE InflateLoop([z EXCEPT !.st = "run", !.byte = Head(in)], Tail(in), out, room, used + 1)
    [] z.st = "run" ->
         IF Len(out) >= room THEN [z |-> z, out |-> out, used |-> used]
         ELSE InflateLoop([z EXCEPT !.cnt = @ - 1, !.st = IF z.cnt = 1 THEN "count" ELSE "run"],
                          in, Append(out, z.byte), room, used)
    [] OTHER -> [z |-> z, out |-> out, used |-> used]

\* inflate(&stream, Z_NO_FLUSH); Z_STREAM_ERROR on a stream that is not set
\* up for inflation (never set up, or already ended)
inflate(z, in, room) ==
  LET Result(r) ==
        [z |-> r.z, out |-> r.out, used |-> r.used,
         status |-> IF r.z.st = "end" THEN Z_STREAM_END
                    ELSE IF r.z.st = "bad" THEN Z_DATA_ERROR
                    ELSE IF r.used > 0 \/ r.out # <<>> THEN Z_OK
                    ELSE Z_BUF_ERROR]
  IN  IF z.kind # "inflate"
        THEN [z |-> [z EXCEPT !.misuse = TRUE], out |-> <<>>, used |-> 0, status |-> Z_STREAM_ERROR]
      ELSE Result(InflateLoop(z, in, <<>>, room, 0))

\* deflateEnd()/inflateEnd(): release the codec state
zEnd(z) == [ZNone EXCEPT !.misuse = z.misuse \/ z.kind = "none"]

(***************************************************************************)
(* The descriptor and what is behind it                                    *)
(*   file, off : the bytes a read()/recv() can return and the read offset  *)
(*   out       : the bytes write()/send() has delivered so far             *)
(*   rplan     : outcomes of the next read calls ("ok", "err", "eintr",    *)
(*               "eagain");                                                *)
(*   wplan     : outcomes of the next write calls ("ok", "err", "eintr",   *)
(*               "eagain", "short"); an empty plan means every call        *)
(*               succeeds                                                  *)
(*   nio       : number of read/write/lseek calls issued so far            *)
(***************************************************************************)
NewOs(file, rplan, wplan) ==
  [file |-> file, off |-> 0, out |-> <<>>, rplan |-> rplan, wplan |-> wplan,
   nio |-> 0, errno |-> 0, closed |-> FALSE, freed |-> FALSE, seekable |-> TRUE,
   time |-> 0]

\* one read()/recv() call for at most n bytes
SysRead(o, n) ==
  LET kind == IF o.rplan = <<>> THEN "ok" ELSE Head(o.rplan)
      o1   == [o EXCEPT !.rplan = IF o.rplan = <<>> THEN <<>> ELSE Tail(o.rplan), !.nio = @ + 1]
      data == SubSeq(o.file, o.off + 1, Min(Len(o.file), o.off + n))
  IN  CASE kind = "err"   -> [os |-> [o1 EXCEPT !.errno = EIO], data |-> <<>>, ret |-> -1]
        [] kind = "eintr" -> [os |-> [o1 EXCEPT !.errno = EINTR], data |-> <<>>, ret |-> -1]
        [] kind = "eagain" -> [os |-> [o1 EXCEPT !.errno = EAGAIN], data |-> <<>>, ret |-> -1]
        [] OTHER          -> [os |-> [o1 EXCEPT !.off = @ + Len(data)], data |-> data, ret |-> Len(data)]

\* one write()/send() call
SysWrite(o, bytes) ==
  LET kind == IF o.wplan = <<>> THEN "ok" ELSE Head(o.wplan)
      o1   == [o EXCEPT !.wplan = IF o.wplan = <<>> THEN <<>> ELSE Tail(o.wplan), !.nio = @ + 1]
  IN  CASE kind = "err"   -> [os |-> [o1 EXCEPT !.errno = EIO], ret |-> -1]
        [] kind = "eintr" -> [os |-> [o1 EXCEPT !.errno = EINTR], ret |-> -1]
        [] kind = "eagain" -> [os |-> [o1 EXCEPT !.errno = EAGAIN], ret |-> -1]
        [] kind = "short" -> [os |-> [o1 EXCEPT !.out = @ \o Take(bytes, 1)], ret |-> Min(1, Len(bytes))]
        [] OTHER          -> [os |-> [o1 EXCEPT !.out = @ \o bytes], ret |-> Len(bytes)]

\* lseek(fd, pos, SEEK_SET)
SysSeek(o, pos) ==
  IF o.seekable THEN [os |-> [o EXCEPT !.off = pos, !.nio = @ + 1], ret |-> pos]
  ELSE [os |-> [o EXCEPT !.nio = @ + 1], ret |-> -1]

\* cups_read(): read, retrying on EINTR/EAGAIN
RECURSIVE cups_read(_, _)
cups_read(o, n) ==
  LET Retry(r) == IF r.ret >= 0 THEN r
                  ELSE IF r.os.errno \in {EAGAIN, EINTR} THEN cups_read(r.os, n)
                  ELSE r
  IN  Retry(SysRead(o, n))

\* cups_write(): write until every byte is out, retrying on EINTR/EAGAIN
RECURSIVE cups_write(_, _)
cups_write(o, bytes) ==
  IF bytes = <<>> THEN [os |-> o, ok |-> TRUE]
  ELSE LET Retry(r) ==
             IF r.ret < 0
               THEN IF r.os.errno \in {EAGAIN, EINTR} THEN cups_write(r.os, bytes)
                    ELSE [os |-> r.os, ok |-> FALSE]
               ELSE cups_write(r.os, Drop(bytes, r.ret))
       IN  Retry(SysWrite(o, bytes))

(***************************************************************************)
(* The handle: struct _cups_file_s                                         *)
(*   ptr, end are offsets into buf, NULL when the pointer is null          *)
(***************************************************************************)
NullStream == [next_in |-> 0, avail_in |-> 0, next_out |-> NULL, avail_out |-> 0, z |-> ZNone]

\* calloc(1, sizeof(cups_file_t))
CallocFile ==
  [fd |-> 0, compressed |-> FALSE, mode |-> "null", buf |-> Rep(0, BufSize),
   ptr |-> NULL, end |-> NULL, is_stdio |-> FALSE, eof |-> FALSE, pos |-> 0, bufpos |-> 0,
   stream |-> NullStream, cbuf |-> Rep(0, BufSize), crc |-> CrcInit, printf_size |-> 0]

\* the null cups_file_t pointer
NullFile == CallocFile

IsNull(f) == f.mode = "null"

\* variant of GzipHeader with the time stored high byte first
GzipHeaderBigEndian(curtime) ==
  <<31, 139, Z_DEFLATED, 0>>
    \o <<(curtime \div 16777216) % 256, (curtime \div 65536) % 256,
         (curtime \div 256) % 256, curtime % 256>>
    \o <<0, 3>>

\* the 10-byte gzip header written by cupsFileOpenFd
GzipHeader(curtime) == <<31, 139, Z_DEFLATED, 0>> \o LE32(curtime) \o <<0, 3>>

\* mode strings are sequences of characters
IsDigit(c) == c \in {"0", "1", "2", "3", "4", "5", "6", "7", "8", "9"}

\* variant of ModeOk that lets a digit follow a
ModeOkAppendDigit(m) ==
  /\ Len(m) >= 1
  /\ m[1] \in {"r", "w", "a", "s"}

ModeOk(m) ==
  /\ Len(m) >= 1
  /\ m[1] \in {"r", "w", "a", "s"}
  /\ ~(m[1] = "a" /\ Len(m) >= 2 /\ IsDigit(m[2]))

\* cupsFileOpenFd(fd, mode): the handle (NullFile when refused) and the descriptor
cupsFileOpenFd(o, fd, m) ==
  IF fd < 0 \/ ~ModeOk(m) THEN [fp |-> NullFile, os |-> o]
  ELSE LET f0 == [CallocFile EXCEPT !.fd = fd] IN
    CASE m[1] \in {"a", "w"} ->
           LET f1 == [f0 EXCEPT !.pos = IF m[1] = "a" THEN Len(o.out) ELSE 0,
                                !.mode = "w", !.ptr = 0, !.end = BufSize]
           IN  IF Len(m) >= 2 /\ IsDigit(m[2]) /\ m[2] # "0"
                 THEN LET w == cups_write(o, GzipHeader(o.time))
                      IN  [fp |-> [f1 EXCEPT !.stream = [NullStream EXCEPT !.next_out = 0,
                                                                !.avail_out = BufSize,
                                                                !.z = deflateInit2(ZNone)],
                                             !.compressed = TRUE, !.crc = CrcInit],
                           os |-> w.os]
                 ELSE [fp |-> f1, os |-> o]
      [] m[1] = "r" -> [fp |-> [f0 EXCEPT !.mode = "r"], os |-> o]
      [] OTHER      -> [fp |-> [f0 EXCEPT !.mode = "s"], os |-> o]

(***************************************************************************)
(* The file system seen through one path name, and cupsFileOpen            *)
(*   entry  : what the path names: nothing, an inode, or a symbolic link   *)
(*            (ino is the inode the link leads to, 0 when it dangles)      *)
(*   inodes : the files: kind "reg", "dir" or "free", link count, content  *)
(*            and permissions                                              *)
(*   fdino  : the inode of the descriptor opened last, fds the number of   *)
(*            descriptors open                                             *)
(* The record also has the fields of a descriptor, which cupsFileOpenFd    *)
(* works on once the file is open.                                         *)
(***************************************************************************)
NoEntry == [type |-> "none", ino |-> 0]

NewFs(entry, inodes) ==
  [file |-> <<>>, off |-> 0, out |-> <<>>, rplan |-> <<>>, wplan |-> <<>>,
   nio |-> 0, errno |-> 0, closed |-> FALSE, freed |-> FALSE, seekable |-> TRUE,
   time |-> 0, entry |-> entry, inodes |-> inodes, fdino |-> 0, fds |-> 0]

\* the inode number lstat reports for the symbolic link itself
LinkIno == 9

\* the inode number given to a file that open() creates
NewIno == 4

\* inode 1 is the file of interest, 2 a file of somebody else, 3 a directory
FsInodes(n1) ==
  [i \in 1..NewIno |->
     CASE i = 1 -> [kind |-> "reg", nlink |-> n1, data |-> <<65, 66>>, perm |-> 420]
       [] i = 2 -> [kind |-> "reg", nlink |-> 1, data |-> <<67>>, perm |-> 384]
       [] i = 3 -> [kind |-> "dir", nlink |-> 2, data |-> <<>>, perm |-> 493]
       [] OTHER -> [kind |-> "free", nlink |-> 0, data |-> <<>>, perm |-> 0]]

\* open(filename, oflag, mode): oflag is the set of flags that matter here
FsOpen(o, oflag, perm) ==
  LET k == o.entry.ino
      Fail(e) == [os |-> [o EXCEPT !.errno = e], fd |-> -1]
      Got(o1, i) == [os |-> [o1 EXCEPT !.fdino = i, !.fds = @ + 1], fd |-> 3]
  IN  IF {"CREAT", "EXCL"} \subseteq oflag /\ o.entry.type # "none" THEN Fail(EEXIST)
      ELSE IF k = 0 THEN
        IF "CREAT" \in oflag
          THEN Got([o EXCEPT !.inodes[NewIno] = [kind |-> "reg", nlink |-> 1, data |-> <<>>,
                                                 perm |-> perm],
                             !.entry = [type |-> IF @.type = "none" THEN "file" ELSE "link",
                                        ino |-> NewIno]],
                   NewIno)
          ELSE Fail(ENOENT)
      ELSE IF o.inodes[k].kind = "dir" /\ "WRONLY" \in oflag THEN Fail(EISDIR)
      ELSE Got(o, k)

\* close(fd)
FsClose(o) == [o EXCEPT !.fds = @ - 1, !.closed = TRUE]

\* fstat(fd, &fileinfo)
FsFstat(o) ==
  [ino |-> o.fdino, nlink |-> o.inodes[o.fdino].nlink, mode |-> o.inodes[o.fdino].kind]

\* lstat(filename, &linkinfo): ok is FALSE when the path names nothing
FsLstat(o) ==
  CASE o.entry.type = "none" -> [ok |-> FALSE, ino |-> 0, nlink |-> 0, mode |-> "none"]
    [] o.entry.type = "link" -> [ok |-> TRUE, ino |-> LinkIno, nlink |-> 1, mode |-> "lnk"]
    [] OTHER -> [ok |-> TRUE, ino |-> o.entry.ino, nlink |-> o.inodes[o.entry.ino].nlink,
                 mode |-> o.inodes[o.entry.ino].kind]

IsOctal(c) == c \in {"0", "1", "2", "3", "4", "5", "6", "7"}

DigitVal(c) ==
  CASE c = "0" -> 0 [] c = "1" -> 1 [] c = "2" -> 2 [] c = "3" -> 3 [] c = "4" -> 4
    [] c = "5" -> 5 [] c = "6" -> 6 [] c = "7" -> 7 [] c = "8" -> 8 [] OTHER -> 9

\* strtol(s, NULL, 8) on a string without sign or leading blanks: the value
\* of the octal digits s starts with, 0 when it starts with none
RECURSIVE strtol8(_, _)
strtol8(sq, acc) ==
  IF sq = <<>> \/ ~IsOctal(Head(sq)) THEN acc
  ELSE strtol8(Tail(sq), acc * 8 + DigitVal(Head(sq)))

\* strchr(mode, 'm'): index of the first m, 0 when there is none
StrChrM(m) ==
  IF \E i \in 1..Len(m) : m[i] = "m"
    THEN CHOOSE i \in 1..Len(m) : m[i] = "m" /\ \A j \in 1..(i - 1) : m[j] # "m"
    ELSE 0

\* the permissions cupsFileOpen takes from the mode string
ModePerm(m) ==
  LET At(p) == IF p > 0 /\ p < Len(m) /\ IsOctal(m[p + 1]) THEN strtol8(Drop(m, 1), 0)
               ELSE DefaultPerm
  IN  At(StrChrM(m))

\* variant of HardLinked that accepts every link count
HardLinkedNever(info) == FALSE

\* "fileinfo.st_nlink != 1"
HardLinked(info) == info.nlink # 1

\* variant of LinkMismatch that only asks whether the path is a symbolic link
LinkMismatchLinkOnly(fi, li) == li.mode = "lnk"

\* the comparison of the descriptor's fstat with the path's lstat
LinkMismatch(fi, li) ==
  \/ li.mode = "lnk"
  \/ fi.ino # li.ino
  \/ fi.nlink # li.nlink
  \/ fi.mode # li.mode

\* the open flags of attempt try of cupsFileOpen for mode string m
OpenFlags(m, try) ==
  CASE m[1] = "a" -> {"WRONLY", "CREAT", "APPEND"}
    [] m[1] = "r" -> {"RDONLY"}
    [] try = 2    -> {"WRONLY", "CREAT", "EXCL"}
    [] OTHER      -> {"WRONLY"}

\* the frame of a cupsFileOpen call: its arguments, its locals, the locals
\* of the cups_open call in progress, and pc, the system call it makes next
\*   "open", "fstat", "lstat" : inside cups_open (mode r: a plain open)
\*   "trunc"                  : ftruncate of a file opened for writing
\*   "openfd"                 : cupsFileOpenFd on the descriptor
\*   "done"                   : returned, fp being the result
OpenFrame(m) ==
  [op |-> "Open", n |-> 0, ret |-> 0, pc |-> "start", mode |-> m, perm |-> DefaultPerm,
   try |-> 1, fd |-> -1, fileinfo |-> [ino |-> 0, nlink |-> 0, mode |-> "none"],
   fp |-> NullFile]

\* cupsFileOpen after cups_open (or open) returned fd on descriptor state o
OpenReturned(c, o, fd) ==
  LET Failed == [c |-> [c EXCEPT !.pc = "done", !.fd = -1], os |-> o]
      Again(t) == [c |-> [c EXCEPT !.pc = "open", !.try = t, !.fd = -1], os |-> o]
  IN  IF fd >= 0
        THEN [c |-> [c EXCEPT !.pc = IF c.mode[1] = "w" THEN "trunc" ELSE "openfd", !.fd = fd],
              os |-> o]
      ELSE IF c.mode[1] = "w" /\ c.try = 1 /\ o.errno = ENOENT THEN Again(2)
      ELSE IF c.mode[1] = "w" /\ c.try = 2 /\ o.errno = EEXIST THEN Again(3)
      ELSE Failed

\* one step of cupsFileOpen(filename, mode): everything up to and including
\* its next system call.  A socket address (mode s) finds no server here.
OpenStep(c, o) ==
  LET Opened(r) ==
        IF r.fd < 0 \/ c.mode[1] = "r" THEN OpenReturned(c, r.os, r.fd)
        ELSE [c |-> [c EXCEPT !.pc = "fstat", !.fd = r.fd], os |-> r.os]
      Statted(info) ==
        IF HardLinked(info) THEN OpenReturned(c, [FsClose(o) EXCEPT !.errno = EPERM], -1)
        ELSE IF info.mode = "dir"
          THEN OpenReturned(c, [FsClose(o) EXCEPT !.errno = EISDIR], -1)
        ELSE [c |-> [c EXCEPT !.pc = "lstat", !.fileinfo = info], os |-> o]
      Linked(li) ==
        IF ~li.ok THEN OpenReturned(c, [FsClose(o) EXCEPT !.errno = ENOENT], -1)
        ELSE IF LinkMismatch(c.fileinfo, li)
          THEN OpenReturned(c, [FsClose(o) EXCEPT !.errno = EPERM], -1)
        ELSE OpenReturned(c, o, c.fd)
      Handle(h) ==
        [c |-> [c EXCEPT !.pc = "done", !.fp = h.fp, !.ret = B2I(~IsNull(h.fp))],
         os |-> IF IsNull(h.fp) THEN FsClose(h.os) ELSE h.os]
  IN  CASE c.pc = "start" ->
             IF ~ModeOk(c.mode) \/ c.mode[1] = "s"
               THEN [c |-> [c EXCEPT !.pc = "done"], os |-> o]
               ELSE [c |-> [c EXCEPT !.pc = "open", !.perm = ModePerm(c.mode)], os |-> o]
        [] c.pc = "open"  -> Opened(FsOpen(o, OpenFlags(c.mode, c.try), c.perm))
        [] c.pc = "fstat" -> Statted(FsFstat(o))
        [] c.pc = "lstat" -> Linked(FsLstat(o))
        [] c.pc = "trunc" ->
             [c |-> [c EXCEPT !.pc = "openfd"], os |-> [o EXCEPT !.inodes[o.fdino].data = <<>>]]
        [] c.pc = "openfd" ->
             Handle(cupsFileOpenFd([o EXCEPT !.out = o.inodes[o.fdino].data], c.fd, c.mode))
        [] OTHER -> [c |-> c, os |-> o]

\* cupsFileOpen(filename, mode) run to its end with nothing else touching
\* the file system
RECURSIVE cupsFileOpen(_, _)
cupsFileOpen(c, o) ==
  LET Stepped(t) == cupsFileOpen(t.c, t.os)
  IN  IF c.pc = "done" THEN [fp |-> c.fp, os |-> o, perm |-> c.perm]
      ELSE Stepped(OpenStep(c, o))

(***************************************************************************)
(* cups_fill(): the fill engine                                            *)
(***************************************************************************)
FlagSet(b, bit) == (b \div bit) % 2 = 1

\* variant of NotGzip that does not look at the flag byte
NotGzipNoFlags(buf, bytes) ==
  \/ bytes < HeaderLen
  \/ buf[1] # 31
  \/ buf[2] # 139
  \/ buf[3] # 8

\* the gzip magic, method and flag test of the first bytes read
NotGzip(buf, bytes) ==
  \/ bytes < HeaderLen
  \/ buf[1] # 31
  \/ buf[2] # 139
  \/ buf[3] # 8
  \/ buf[4] >= 32

\* skip a NUL-terminated header field starting at offset p; -1 when it runs
\* past the bytes read
RECURSIVE SkipString(_, _, _)
SkipString(buf, p, e) ==
  IF p >= e THEN -1
  ELSE IF buf[p + 1] = 0 THEN p + 1
  ELSE SkipString(buf, p + 1, e)

\* offset of the first compressed byte after the optional header fields, or
\* -1 when a field is truncated
HeaderEnd(buf, e) ==
  LET Crc(p) == IF p >= 0 /\ FlagSet(buf[4], 2)
                  THEN IF p + 2 > e THEN -1 ELSE p + 2
                  ELSE p
      Comment(p) == Crc(IF p >= 0 /\ FlagSet(buf[4], 16) THEN SkipString(buf, p, e) ELSE p)
      Name(p) == Comment(IF p >= 0 /\ FlagSet(buf[4], 8) THEN SkipString(buf, p, e) ELSE p)
      Extra(q) == IF q > e THEN -1 ELSE q
  IN  Name(IF FlagSet(buf[4], 4)
             THEN IF HeaderLen + 2 > e THEN -1
                  ELSE Extra(HeaderLen + 2 + buf[HeaderLen + 2] * 256 + buf[HeaderLen + 1])
             ELSE HeaderLen)

\* first part of the loop body: nothing read yet, so read a buffer and look
\* for a gzip header
FillSniff(f, o) ==
  LET f1 == [f EXCEPT !.compressed = FALSE]
      Header(r, f2, p) ==
        IF p < 0
          THEN [fp |-> [f2 EXCEPT !.eof = TRUE], os |-> [r.os EXCEPT !.errno = EIO],
                done |-> TRUE, ret |-> -1]
        ELSE [fp |-> [f2 EXCEPT !.cbuf = MemCpy(f.cbuf, 0, SubSeq(f2.buf, p + 1, r.ret)),
                                !.stream = [next_in |-> 0, avail_in |-> r.ret - p,
                                            next_out |-> NULL, avail_out |-> 0,
                                            z |-> inflateInit2(f.stream.z)],
                                !.crc = CrcInit,
                                !.compressed = TRUE],
              os |-> r.os, done |-> FALSE, ret |-> 0]
      Sniffed(r, f2) ==
        IF NotGzip(f2.buf, r.ret)
          THEN [fp |-> [f2 EXCEPT !.ptr = 0, !.end = r.ret], os |-> r.os,
                done |-> TRUE, ret |-> r.ret]
        ELSE Header(r, f2, HeaderEnd(f2.buf, r.ret))
      Read(r) ==
        IF r.ret < 0
          THEN [fp |-> [f1 EXCEPT !.eof = TRUE], os |-> r.os, done |-> TRUE, ret |-> -1]
        ELSE Sniffed(r, [f1 EXCEPT !.buf = MemCpy(f.buf, 0, r.data)])
  IN  Read(cups_read(o, BufSize))

\* the trailer CRC read at the end of a member equals the running CRC
TrailerOk(trailer, crc) == SubSeq(trailer, 1, 4) = crc

\* second part of the loop body: feed the decompressor and drain its output
FillInflate(f, o) ==
  IF f.eof THEN [fp |-> f, os |-> o, done |-> TRUE, ret |-> 0]
  ELSE
    LET need == f.stream.avail_in = 0
        \* the trailer bytes are in: f2 is the handle after they were taken
        Trailed(f2, rd, tb, n) ==
          IF tb < TrailerLen /\ rd.ret < TrailerLen - tb
            THEN [fp |-> [f2 EXCEPT !.eof = TRUE], os |-> [rd.os EXCEPT !.errno = EIO],
                  done |-> TRUE, ret |-> -1]
          ELSE IF ~TrailerOk(SubSeq(f2.cbuf, f2.stream.next_in - tb + 1, f2.stream.next_in)
                               \o rd.data, f2.crc)
            THEN [fp |-> [f2 EXCEPT !.eof = TRUE], os |-> [rd.os EXCEPT !.errno = EIO],
                  done |-> TRUE, ret |-> -1]
          ELSE [fp |-> [f2 EXCEPT !.stream.z = zEnd(f2.stream.z), !.compressed = FALSE,
                                  !.ptr = 0, !.end = n],
                os |-> rd.os, done |-> n > 0, ret |-> n]
        \* the stream has ended: take tb trailer bytes from cbuf, read the rest
        Ended(f1, os1, tb, n) ==
          Trailed([f1 EXCEPT !.stream.next_in = @ + tb, !.stream.avail_in = @ - tb],
                  IF tb < TrailerLen THEN SysRead(os1, TrailerLen - tb)
                  ELSE [os |-> os1, data |-> <<>>, ret |-> 0],
                  tb, n)
        \* f1 is the handle after inflate returned status with n bytes of output
        Inflated(f1, os1, status, n) ==
          IF status = Z_STREAM_END THEN Ended(f1, os1, Min(f1.stream.avail_in, TrailerLen), n)
          ELSE IF status < Z_OK
            THEN [fp |-> [f1 EXCEPT !.eof = TRUE], os |-> [os1 EXCEPT !.errno = EIO],
                  done |-> TRUE, ret |-> -1]
          ELSE [fp |-> [f1 EXCEPT !.ptr = 0, !.end = n], os |-> os1, done |-> n > 0, ret |-> n]
        Decoded(cbuf, nin, ain, os1, x) ==
          Inflated([f EXCEPT !.cbuf = cbuf, !.buf = MemCpy(f.buf, 0, x.out),
                             !.crc = IF Len(x.out) > 0 THEN crc32(f.crc, x.out) ELSE f.crc,
                             !.stream = [next_in |-> nin + x.used, avail_in |-> ain - x.used,
                                         next_out |-> Len(x.out),
                                         avail_out |-> BufSize - Len(x.out), z |-> x.z]],
                   os1, x.status, Len(x.out))
        Input(cbuf, nin, ain, os1) ==
          Decoded(cbuf, nin, ain, os1,
                  inflate(f.stream.z, SubSeq(cbuf, nin + 1, nin + ain), BufSize))
        Fed(r) ==
          IF need /\ r.ret <= 0
            THEN [fp |-> [f EXCEPT !.eof = TRUE], os |-> r.os, done |-> TRUE, ret |-> r.ret]
          ELSE Input(IF need THEN MemCpy(f.cbuf, 0, r.data) ELSE f.cbuf,
                     IF need THEN 0 ELSE f.stream.next_in,
                     IF need THEN r.ret ELSE f.stream.avail_in,
                     r.os)
    IN  Fed(IF need THEN cups_read(o, BufSize) ELSE [os |-> o, data |-> <<>>, ret |-> 0])

\* the code after the loop: one raw read per fill
FillRaw(f, o) ==
  LET Read(r) ==
        IF r.ret <= 0
          THEN [fp |-> [f EXCEPT !.eof = TRUE, !.ptr = 0, !.end = 0], os |-> r.os, ret |-> r.ret]
          ELSE [fp |-> [f EXCEPT !.eof = FALSE, !.ptr = 0, !.end = r.ret,
                                 !.buf = MemCpy(f.buf, 0, r.data)],
                os |-> r.os, ret |-> r.ret]
  IN  Read(cups_read(o, BufSize))

\* the loop condition of cups_fill
FillLoops(f) == f.ptr = NULL \/ f.compressed

RECURSIVE FillLoop(_, _)
FillLoop(f, o) ==
  IF ~FillLoops(f) THEN FillRaw(f, o)
  ELSE LET Inflated(d) == IF d.done THEN [fp |-> d.fp, os |-> d.os, ret |-> d.ret]
                          ELSE FillLoop(d.fp, d.os)
           Sniffed(s) == IF s.done THEN [fp |-> s.fp, os |-> s.os, ret |-> s.ret]
                         ELSE IF s.fp.compressed THEN Inflated(FillInflate(s.fp, s.os))
                         ELSE FillLoop(s.fp, s.os)
       IN  Sniffed(IF f.ptr = NULL THEN FillSniff(f, o)
                   ELSE [fp |-> f, os |-> o, done |-> FALSE, ret |-> 0])

cups_fill(f, o) ==
  FillLoop(IF f.ptr # NULL /\ f.end # NULL THEN [f EXCEPT !.bufpos = @ + f.end] ELSE f, o)

(***************************************************************************)
(* The write side: compressor, flusher, write operations, close            *)
(***************************************************************************)
\* variant of ScratchFilled that takes the whole scratch buffer
ScratchWhole(f) == f.cbuf

\* "fp->cbuf, (size_t)(fp->stream.next_out - fp->cbuf)": the filled part of
\* the compression scratch buffer
ScratchFilled(f) == Take(f.cbuf, f.stream.next_out)

\* the loop of cups_compress over the input not yet consumed
RECURSIVE CompressLoop(_, _, _)
CompressLoop(f, o, in) ==
  IF in = <<>> THEN [fp |-> [f EXCEPT !.stream.avail_in = 0], os |-> o, ok |-> TRUE]
  ELSE
    LET full == f.stream.avail_out < BufSize \div 8
        nout == IF full THEN 0 ELSE f.stream.next_out
        aout == IF full THEN BufSize ELSE f.stream.avail_out
        Next(f1, os1, d) ==
          IF d.status < Z_OK /\ d.status # Z_BUF_ERROR
            THEN [fp |-> f1, os |-> os1, ok |-> FALSE]
            ELSE CompressLoop(f1, os1, Drop(in, d.used))
        Deflated(os1, d) ==
          Next([f EXCEPT !.cbuf = MemCpy(f.cbuf, nout, d.out),
                         !.stream = [next_in |-> 0, avail_in |-> Len(in) - d.used,
                                     next_out |-> nout + Len(d.out),
                                     avail_out |-> aout - Len(d.out), z |-> d.z]],
               os1, d)
        Written(w) ==
          IF ~w.ok THEN [fp |-> [f EXCEPT !.stream.avail_in = Len(in)], os |-> w.os, ok |-> FALSE]
          ELSE Deflated(w.os, deflate(f.stream.z, in, aout, FALSE))
    IN  Written(IF full THEN cups_write(o, ScratchFilled(f))
                ELSE [os |-> o, ok |-> TRUE])

\* variant of cups_compress that leaves the running CRC alone
CompressNoCrc(f, o, data) == CompressLoop(f, o, data)

\* cups_compress(fp, buf, bytes)
cups_compress(f, o, data) ==
  CompressLoop([f EXCEPT !.crc = crc32(f.crc, data)], o, data)

\* cupsFileFlush(fp)
cupsFileFlush(f, o) ==
  IF IsNull(f) \/ f.mode # "w" THEN [fp |-> f, os |-> o, ret |-> FALSE]
  ELSE IF f.ptr > 0 THEN
    LET Compressed(c) == [fp |-> [c.fp EXCEPT !.ptr = 0], os |-> c.os, ret |-> c.ok]
        Written(w) == [fp |-> [f EXCEPT !.ptr = 0], os |-> w.os, ret |-> w.ok]
    IN  IF f.compressed
          THEN Compressed(cups_compress(f, o, Take(f.buf, f.ptr)))
          ELSE Written(cups_write(o, Take(f.buf, f.ptr)))
  ELSE [fp |-> f, os |-> o, ret |-> TRUE]

\* the tail shared by cupsFileWrite, cupsFilePuts and cupsFilePrintf once
\* the bytes are known: flush when they do not fit, count them, then pass
\* them through (larger than the buffer) or copy them into the buffer
BufferedPut(f, o, data, stdioflush) ==
  LET n == Len(data)
      Compressed(c) == [fp |-> c.fp, os |-> c.os, ret |-> c.ok]
      Written(f1, w) == [fp |-> f1, os |-> w.os, ret |-> w.ok]
      Flushed(g) == [fp |-> g.fp, os |-> g.os, ret |-> g.ret]
      Copied(f2, os1) ==
        IF stdioflush /\ f2.is_stdio THEN Flushed(cupsFileFlush(f2, os1))
        ELSE [fp |-> f2, os |-> os1, ret |-> TRUE]
      Counted(f1, os1) ==
        IF n > BufSize THEN
          IF f1.compressed THEN Compressed(cups_compress(f1, os1, data))
          ELSE Written(f1, cups_write(os1, data))
        ELSE Copied([f1 EXCEPT !.buf = MemCpy(f1.buf, f1.ptr, data), !.ptr = @ + n], os1)
      Room(fl) ==
        IF ~fl.ret THEN [fp |-> fl.fp, os |-> fl.os, ret |-> FALSE]
        ELSE Counted([fl.fp EXCEPT !.pos = @ + n], fl.os)
  IN  Room(IF f.ptr + n > f.end THEN cupsFileFlush(f, o) ELSE [fp |-> f, os |-> o, ret |-> TRUE])

\* variant of SocketPut that counts the bytes and leaves the sending for later
SocketPutLater(f, o, data) ==
  [fp |-> [f EXCEPT !.pos = @ + Len(data)], os |-> o, ret |-> TRUE]

\* the socket branch of the write operations: send now, then count
SocketPut(f, o, data) ==
  LET Sent(w) ==
        IF ~w.ok THEN [fp |-> f, os |-> w.os, ret |-> FALSE]
        ELSE [fp |-> [f EXCEPT !.pos = @ + Len(data)], os |-> w.os, ret |-> TRUE]
  IN  Sent(cups_write(o, data))

\* the modes a write operation accepts
WriteModeOk(f) == ~IsNull(f) /\ f.mode \in {"w", "s"}

\* the modes a read operation accepts
ReadModeOk(f) == ~IsNull(f) /\ f.mode \in {"r", "s"}

\* variant of SeekModeOk that lets every open handle seek
SeekModeAny(f) == ~IsNull(f)

\* the modes cupsFileSeek and cupsFileRewind accept
SeekModeOk(f) == ~IsNull(f) /\ f.mode = "r"

\* cupsFileWrite(fp, buf, bytes)
cupsFileWrite(f, o, data) ==
  IF ~WriteModeOk(f) THEN [fp |-> f, os |-> o, ret |-> FALSE]
  ELSE IF data = <<>> THEN [fp |-> f, os |-> o, ret |-> TRUE]
  ELSE IF f.mode = "s" THEN SocketPut(f, o, data)
  ELSE BufferedPut(f, o, data, FALSE)

\* cupsFilePuts(fp, s): s holds no NUL byte
cupsFilePuts(f, o, s) ==
  IF ~WriteModeOk(f) THEN [fp |-> f, os |-> o, ret |-> FALSE]
  ELSE IF f.mode = "s" THEN SocketPut(f, o, s)
  ELSE BufferedPut(f, o, s, TRUE)

\* cupsFilePutChar(fp, c)
cupsFilePutChar(f, o, c) ==
  IF ~WriteModeOk(f) THEN [fp |-> f, os |-> o, ret |-> FALSE]
  ELSE IF f.mode = "s" THEN
    LET Sent(w) ==
          IF w.ret < 1 THEN [fp |-> f, os |-> w.os, ret |-> FALSE]
          ELSE [fp |-> [f EXCEPT !.pos = @ + 1], os |-> w.os, ret |-> TRUE]
    IN  Sent(SysWrite(o, <<c>>))
  ELSE
    LET Room(fl) ==
          IF ~fl.ret THEN [fp |-> fl.fp, os |-> fl.os, ret |-> FALSE]
          ELSE [fp |-> [fl.fp EXCEPT !.buf = MemCpy(fl.fp.buf, fl.fp.ptr, <<c>>), !.ptr = @ + 1,
                                     !.pos = @ + 1],
                os |-> fl.os, ret |-> TRUE]
    IN  Room(IF f.ptr >= f.end THEN cupsFileFlush(f, o) ELSE [fp |-> f, os |-> o, ret |-> TRUE])

\* conversion of an int return value to the bool the function returns
CBool(n) == n # 0

\* cupsFilePrintf(fp, format, ...): len is the size vsnprintf reports for the
\* rendered text; text holds the rendering when it fits the scratch buffer
cupsFilePrintf(f, o, len, text) ==
  IF ~WriteModeOk(f) THEN [fp |-> f, os |-> o, ret |-> FALSE]
  ELSE
    LET size0 == IF f.printf_size = 0 THEN PrintfInitial ELSE f.printf_size
        Sent(f1, w) ==
          IF ~w.ok THEN [fp |-> f1, os |-> w.os, ret |-> FALSE]
          ELSE [fp |-> [f1 EXCEPT !.pos = @ + len], os |-> w.os, ret |-> CBool(len)]
        Rendered(f1) ==
          IF f1.mode = "s" THEN Sent(f1, cups_write(o, text))
          ELSE BufferedPut(f1, o, text, TRUE)
    IN  IF len >= size0 /\ len > PrintfMax
          THEN [fp |-> [f EXCEPT !.printf_size = size0], os |-> o, ret |-> CBool(-1)]
        ELSE Rendered([f EXCEPT !.printf_size = IF len >= size0 THEN len + 1 ELSE size0])

\* variant of Trailer with the length before the CRC
TrailerLengthFirst(crc, pos) == LE32(pos) \o crc

\* the 8 trailer bytes: CRC, then length, both little-endian
Trailer(crc, pos) == crc \o LE32(pos)

\* next_out > cbuf: on a write handle next_out is an offset into cbuf; on a
\* handle that has been decompressing it points into buf, which lies before
\* cbuf in the structure
OutPending(f) == f.mode = "w" /\ f.stream.next_out > 0

\* the drain loop of cupsFileClose, entered for every compressed handle that
\* is not in read mode; hangs says that the loop never ends, which is the
\* case when deflate refuses the stream and so never reports its end
RECURSIVE DrainLoop(_, _, _, _)
DrainLoop(f, o, done, status) ==
  LET has == OutPending(f)
      f1  == IF has THEN [f EXCEPT !.stream.next_out = 0, !.stream.avail_out = BufSize] ELSE f
      Next(f2, os1, ok, d) ==
        DrainLoop(f2, os1, d.status = Z_STREAM_END /\ f2.stream.next_out = 0, ok)
      Deflated(os1, ok, d) ==
        IF d.status = Z_STREAM_ERROR
          THEN [fp |-> [f1 EXCEPT !.stream.z = d.z], os |-> os1, status |-> ok, hangs |-> TRUE]
        ELSE Next([f1 EXCEPT !.cbuf = MemCpy(f1.cbuf, f1.stream.next_out, d.out),
                             !.stream.next_out = @ + Len(d.out),
                             !.stream.avail_out = @ - Len(d.out),
                             !.stream.z = d.z],
                  os1, ok, d)
      Written(w) ==
        IF done \/ ~w.ok THEN [fp |-> f1, os |-> w.os, status |-> w.ok, hangs |-> FALSE]
        ELSE Deflated(w.os, w.ok, deflate(f1.stream.z, <<>>, f1.stream.avail_out, TRUE))
  IN  Written(IF has THEN cups_write(o, ScratchFilled(f))
              ELSE [os |-> o, ok |-> status])

\* the status cupsFileClose carries out of the compressed-write block
CloseStatus(drained, trailerWritten) == trailerWritten

\* whether cupsFileClose enters the block that releases the codec state
CloseReleases(f, status) == f.compressed /\ status

\* cupsFileClose(fp): flushok and drainok are the values of the local status
\* after the flush and after the drain loop; hangs says that the call never
\* returns
cupsFileClose(f, o) ==
  IF IsNull(f)
    THEN [fp |-> f, os |-> o, ret |-> FALSE, flushok |-> TRUE, drainok |-> TRUE, hangs |-> FALSE]
  ELSE
    LET Freed(c, flushok) ==
          IF c.hangs \/ c.fp.is_stdio
            THEN [fp |-> c.fp, os |-> c.os, ret |-> c.status, flushok |-> flushok,
                  drainok |-> c.drainok, hangs |-> c.hangs]
          ELSE [fp |-> c.fp, os |-> [c.os EXCEPT !.freed = TRUE, !.closed = TRUE],
                ret |-> IF c.fp.mode = "s" THEN TRUE ELSE c.status,
                flushok |-> flushok, drainok |-> c.drainok, hangs |-> FALSE]
        Trailed(d, w) ==
          [fp |-> [d.fp EXCEPT !.stream.z = zEnd(@)], os |-> w.os,
           status |-> CloseStatus(d.status, w.ok), drainok |-> d.status, hangs |-> FALSE]
        Drained(d) ==
          IF d.hangs
            THEN [fp |-> d.fp, os |-> d.os, status |-> d.status, drainok |-> d.status,
                  hangs |-> TRUE]
          ELSE Trailed(d, cups_write(d.os, Trailer(d.fp.crc, d.fp.pos)))
        Flushed(fl) ==
          Freed(IF CloseReleases(fl.fp, fl.ret) THEN
                  IF fl.fp.mode = "r"
                    THEN [fp |-> [fl.fp EXCEPT !.stream.z = zEnd(@)], os |-> fl.os,
                          status |-> fl.ret, drainok |-> TRUE, hangs |-> FALSE]
                    ELSE Drained(DrainLoop([fl.fp EXCEPT !.stream.avail_in = 0], fl.os, FALSE,
                                           fl.ret))
                ELSE [fp |-> fl.fp, os |-> fl.os, status |-> fl.ret, drainok |-> TRUE,
                      hangs |-> FALSE],
                fl.ret)
    IN  Flushed(IF f.mode = "w" THEN cupsFileFlush(f, o) ELSE [fp |-> f, os |-> o, ret |-> TRUE])

(***************************************************************************)
(* The read side: read operations, rewind and seek                         *)
(***************************************************************************)
\* "if (fp->ptr >= fp->end)": the buffer holds nothing unread
BufEmpty(f) == f.ptr >= f.end

\* "if (fp->ptr >= fp->end) if (cups_fill(fp) <= 0) ...": fill when nothing
\* is unread; ret is positive when there is a byte to take
Refill(f, o) == IF BufEmpty(f) THEN cups_fill(f, o) ELSE [fp |-> f, os |-> o, ret |-> 1]

\* whether cupsFileRead and cupsFileGetChar stop at once because eof is set
EofStops(f) == f.eof

\* the loop of cupsFileRead: n bytes still wanted, got delivered so far
RECURSIVE ReadLoop(_, _, _, _)
ReadLoop(f, o, n, got) ==
  IF n = 0 THEN [fp |-> f, os |-> o, ret |-> Len(got), data |-> got]
  ELSE
    LET Copy(r, count) ==
          ReadLoop([r.fp EXCEPT !.ptr = @ + count, !.pos = @ + count], r.os, n - count,
                   got \o SubSeq(r.fp.buf, r.fp.ptr + 1, r.fp.ptr + count))
        Filled(r) ==
          IF r.ret <= 0
            THEN [fp |-> r.fp, os |-> r.os, ret |-> IF Len(got) > 0 THEN Len(got) ELSE -1,
                  data |-> got]
          ELSE Copy(r, Min(r.fp.end - r.fp.ptr, n))
    IN  Filled(Refill(f, o))

\* cupsFileRead(fp, buf, bytes)
cupsFileRead(f, o, n) ==
  IF ~ReadModeOk(f) THEN [fp |-> f, os |-> o, ret |-> -1, data |-> <<>>]
  ELSE IF n = 0 THEN [fp |-> f, os |-> o, ret |-> 0, data |-> <<>>]
  ELSE IF EofStops(f) THEN [fp |-> f, os |-> o, ret |-> -1, data |-> <<>>]
  ELSE ReadLoop(f, o, n, <<>>)

\* cupsFileGetChar(fp)
cupsFileGetChar(f, o) ==
  IF ~ReadModeOk(f) THEN [fp |-> f, os |-> o, ret |-> -1, data |-> <<>>]
  ELSE IF EofStops(f) THEN [fp |-> f, os |-> o, ret |-> -1, data |-> <<>>]
  ELSE
    LET Filled(r) ==
          IF r.ret <= 0 THEN [fp |-> r.fp, os |-> r.os, ret |-> -1, data |-> <<>>]
          ELSE [fp |-> [r.fp EXCEPT !.pos = @ + 1, !.ptr = @ + 1], os |-> r.os,
                ret |-> r.fp.buf[r.fp.ptr + 1], data |-> <<r.fp.buf[r.fp.ptr + 1]>>]
    IN  Filled(Refill(f, o))

\* cupsFilePeekChar(fp)
cupsFilePeekChar(f, o) ==
  IF ~ReadModeOk(f) THEN [fp |-> f, os |-> o, ret |-> -1, data |-> <<>>]
  ELSE
    LET Filled(r) ==
          IF r.ret <= 0 THEN [fp |-> r.fp, os |-> r.os, ret |-> -1, data |-> <<>>]
          ELSE [fp |-> r.fp, os |-> r.os, ret |-> r.fp.buf[r.fp.ptr + 1], data |-> <<>>]
    IN  Filled(Refill(f, o))

CR == 13
LF == 10

\* variant of AfterCR that leaves the byte after the CR where it is
AfterCRNoLookahead(f, o, line, keep) == [fp |-> f, os |-> o, line |-> line]

\* after a CR: fill if needed and swallow a following LF; keep says whether
\* the LF is stored (cupsFileGetLine) or dropped (cupsFileGets)
AfterCR(f, o, line, keep) ==
  LET Filled(r) ==
        IF r.ret <= 0 THEN [fp |-> r.fp, os |-> r.os, line |-> line]
        ELSE IF r.fp.buf[r.fp.ptr + 1] = LF
          THEN [fp |-> [r.fp EXCEPT !.ptr = @ + 1, !.pos = @ + 1], os |-> r.os,
                line |-> IF keep THEN Append(line, LF) ELSE line]
        ELSE [fp |-> r.fp, os |-> r.os, line |-> line]
  IN  Filled(Refill(f, o))

\* the loop of cupsFileGets: room is buflen - 1
RECURSIVE GetsLoop(_, _, _, _)
GetsLoop(f, o, room, line) ==
  IF Len(line) >= room THEN [fp |-> f, os |-> o, null |-> FALSE, line |-> line]
  ELSE
    LET Ended(a) == [fp |-> a.fp, os |-> a.os, null |-> FALSE, line |-> a.line]
        Taken(f1, os1, ch) ==
          IF ch = CR THEN Ended(AfterCR(f1, os1, line, FALSE))
          ELSE IF ch = LF THEN [fp |-> f1, os |-> os1, null |-> FALSE, line |-> line]
          ELSE GetsLoop(f1, os1, room, Append(line, ch))
        Filled(r) ==
          IF r.ret <= 0
            THEN [fp |-> r.fp, os |-> r.os, null |-> line = <<>>, line |-> line]
          ELSE Taken([r.fp EXCEPT !.ptr = @ + 1, !.pos = @ + 1], r.os, r.fp.buf[r.fp.ptr + 1])
    IN  Filled(Refill(f, o))

\* cupsFileGets(fp, buf, buflen): null is the NULL return, line the text stored
cupsFileGets(f, o, buflen) ==
  IF ~ReadModeOk(f) \/ buflen < 2 THEN [fp |-> f, os |-> o, null |-> TRUE, line |-> <<>>]
  ELSE GetsLoop(f, o, buflen - 1, <<>>)

\* the loop of cupsFileGetLine: room is buflen - 2
RECURSIVE GetLineLoop(_, _, _, _)
GetLineLoop(f, o, room, line) ==
  IF Len(line) >= room THEN [fp |-> f, os |-> o, ret |-> Len(line), line |-> line]
  ELSE
    LET Ended(a) == [fp |-> a.fp, os |-> a.os, ret |-> Len(a.line), line |-> a.line]
        Taken(f1, os1, ch, l1) ==
          IF ch = CR THEN Ended(AfterCR(f1, os1, l1, TRUE))
          ELSE IF ch = LF THEN [fp |-> f1, os |-> os1, ret |-> Len(l1), line |-> l1]
          ELSE GetLineLoop(f1, os1, room, l1)
        Filled(r) ==
          IF r.ret <= 0 THEN [fp |-> r.fp, os |-> r.os, ret |-> Len(line), line |-> line]
          ELSE Taken([r.fp EXCEPT !.ptr = @ + 1, !.pos = @ + 1], r.os, r.fp.buf[r.fp.ptr + 1],
                     Append(line, r.fp.buf[r.fp.ptr + 1]))
    IN  Filled(Refill(f, o))

\* variant of cupsFileGetLine that drops the terminators as cupsFileGets does
cupsFileGetLineStripped(f, o, buflen) ==
  LET Counted(r) == [fp |-> r.fp, os |-> r.os, ret |-> Len(r.line), line |-> r.line]
  IN  Counted(cupsFileGets(f, o, buflen - 1))

\* cupsFileGetLine(fp, buf, buflen)
cupsFileGetLine(f, o, buflen) ==
  IF ~ReadModeOk(f) \/ buflen < 3 THEN [fp |-> f, os |-> o, ret |-> 0, line |-> <<>>]
  ELSE GetLineLoop(f, o, buflen - 2, <<>>)

\* _cups_isspace(): space, \f, \n, \r, \t, \v
IsSpace(c) == c \in {32, 12, 10, 13, 9, 11}

\* the text of a C string: the bytes before the first NUL
RECURSIVE CStr(_)
CStr(sq) == IF sq = <<>> \/ Head(sq) = 0 THEN <<>> ELSE <<Head(sq)>> \o CStr(Tail(sq))

\* strchr(): index of the first occurrence of c, 0 when there is none
RECURSIVE IndexOf(_, _, _)
IndexOf(sq, c, i) ==
  IF i > Len(sq) THEN 0 ELSE IF sq[i] = c THEN i ELSE IndexOf(sq, c, i + 1)

\* index of the first whitespace character, 0 when there is none
RECURSIVE FirstSpace(_, _)
FirstSpace(sq, i) ==
  IF i > Len(sq) THEN 0 ELSE IF IsSpace(sq[i]) THEN i ELSE FirstSpace(sq, i + 1)

RECURSIVE LStrip(_)
LStrip(sq) == IF sq # <<>> /\ IsSpace(Head(sq)) THEN LStrip(Tail(sq)) ELSE sq

RECURSIVE RStrip(_)
RStrip(sq) ==
  IF sq # <<>> /\ IsSpace(sq[Len(sq)]) THEN RStrip(SubSeq(sq, 1, Len(sq) - 1)) ELSE sq

\* trailing whitespace of a value is removed down to, not including, its first byte
RStripValue(sq) == IF Len(sq) <= 1 THEN sq ELSE <<Head(sq)>> \o RStrip(Tail(sq))

\* variant of ConfComment that cuts the line at its first # whatever
\* precedes it
ConfCommentCutsAll(line) ==
  LET At(h) == IF h = 0 THEN line ELSE RStrip(SubSeq(line, 1, h - 1))
  IN  At(IndexOf(line, 35, 1))

\* comment handling of cupsFileGetConf on one line
ConfComment(line) ==
  LET At(h) ==
        IF h = 0 THEN line
        ELSE IF h > 1 /\ line[h - 1] = 92
          THEN SubSeq(line, 1, h - 2) \o SubSeq(line, h, Len(line))
        ELSE RStrip(SubSeq(line, 1, h - 1))
  IN  At(IndexOf(line, 35, 1))

\* variant of ConfSplit that never reports a syntax error: a value that
\* does not end with > is returned as it is
ConfSplitLenient(line) ==
  LET At(w) ==
        IF w = 0 THEN [buf |-> line, hasvalue |-> FALSE, value |-> <<>>]
        ELSE [buf |-> SubSeq(line, 1, w - 1),
              hasvalue |-> LStrip(SubSeq(line, w, Len(line))) # <<>>,
              value |-> RStripValue(LStrip(SubSeq(line, w, Len(line))))]
  IN  At(FirstSpace(line, 1))

\* the directive/value split of cupsFileGetConf on a line that is not empty:
\* buf is the returned text, value the value text when hasvalue
ConfSplit(line) ==
  LET Value(dir, rest, last) ==
        IF line[1] = 60 /\ last = 62
          THEN [buf |-> dir, hasvalue |-> TRUE,
                value |-> RStripValue(SubSeq(rest, 1, Len(rest) - 1))]
        ELSE IF line[1] = 60
          THEN [buf |-> dir, hasvalue |-> FALSE, value |-> <<>>]
        ELSE [buf |-> dir, hasvalue |-> rest # <<>>, value |-> RStripValue(rest)]
      Rest(dir, rest) == Value(dir, rest, IF rest = <<>> THEN 0 ELSE rest[Len(rest)])
      At(w) ==
        IF w = 0 THEN [buf |-> line, hasvalue |-> FALSE, value |-> <<>>]
        ELSE Rest(SubSeq(line, 1, w - 1), LStrip(SubSeq(line, w, Len(line))))
  IN  At(FirstSpace(line, 1))

\* the loop of cupsFileGetConf: lines counts the lines read by this call
RECURSIVE GetConfLoop(_, _, _, _)
GetConfLoop(f, o, buflen, lines) ==
  LET Split(g, c) ==
        [fp |-> g.fp, os |-> g.os, null |-> FALSE, buf |-> c.buf,
         hasvalue |-> c.hasvalue, value |-> c.value, lines |-> lines + 1]
      Text(g, t) ==
        IF t = <<>> THEN GetConfLoop(g.fp, g.os, buflen, lines + 1)
        ELSE Split(g, ConfSplit(t))
      Line(g) ==
        IF g.null
          THEN [fp |-> g.fp, os |-> g.os, null |-> TRUE, buf |-> <<>>, hasvalue |-> FALSE,
                value |-> <<>>, lines |-> lines]
        ELSE Text(g, LStrip(ConfComment(CStr(g.line))))
  IN  Line(cupsFileGets(f, o, buflen))

\* cupsFileGetConf(fp, buf, buflen, value, linenum)
cupsFileGetConf(f, o, buflen) ==
  IF ~ReadModeOk(f) \/ buflen < 2
    THEN [fp |-> f, os |-> o, null |-> TRUE, buf |-> <<>>, hasvalue |-> FALSE, value |-> <<>>,
          lines |-> 0]
  ELSE GetConfLoop(f, o, buflen, 0)

\* variant of cupsFileRewind that resets the position but not the buffer
RewindKeepsBuffer(f, o) ==
  IF ~SeekModeOk(f) THEN [fp |-> f, os |-> o, ret |-> -1]
  ELSE [fp |-> [f EXCEPT !.pos = 0, !.eof = FALSE], os |-> o, ret |-> 0]

\* cupsFileRewind(fp)
cupsFileRewind(f, o) ==
  IF ~SeekModeOk(f) THEN [fp |-> f, os |-> o, ret |-> -1]
  ELSE IF f.bufpos = 0 THEN
    [fp |-> IF f.ptr # NULL THEN [f EXCEPT !.pos = 0, !.ptr = 0, !.eof = FALSE]
            ELSE [f EXCEPT !.pos = 0],
     os |-> o, ret |-> 0]
  ELSE
    LET f1 == IF f.compressed
                THEN [f EXCEPT !.stream.z = zEnd(@), !.compressed = FALSE]
                ELSE f
        Sought(k) ==
          IF k.ret # 0 THEN [fp |-> f1, os |-> k.os, ret |-> -1]
          ELSE [fp |-> [f1 EXCEPT !.bufpos = 0, !.pos = 0, !.ptr = NULL, !.end = NULL,
                                  !.eof = FALSE],
                os |-> k.os, ret |-> 0]
    IN  Sought(SysSeek(o, 0))

\* variant of InWindow that leaves the first byte of the buffer out of the
\* window
InWindowAfterFirst(pos, bufpos, bytes) == pos > bufpos /\ pos < bufpos + bytes

\* variant of InWindow without the upper end of the window
InWindowOpenEnded(pos, bufpos, bytes) == pos >= bufpos

\* "pos >= fp->bufpos && pos < (fp->bufpos + bytes)"
InWindow(pos, bufpos, bytes) == pos >= bufpos /\ pos < bufpos + bytes

\* the fill-forward loop of cupsFileSeek on a compressed stream
RECURSIVE SeekFill(_, _, _)
SeekFill(f, o, pos) ==
  LET Filled(r) ==
        IF r.ret <= 0 THEN [fp |-> r.fp, os |-> r.os, ret |-> -1]
        ELSE IF InWindow(pos, r.fp.bufpos, r.ret)
          THEN [fp |-> [r.fp EXCEPT !.ptr = pos - r.fp.bufpos, !.pos = pos], os |-> r.os,
                ret |-> pos]
        ELSE SeekFill(r.fp, r.os, pos)
  IN  Filled(cups_fill(f, o))

\* the direct positional seek of cupsFileSeek on an uncompressed stream
SeekRaw(f, o, pos) ==
  LET Sought(k) ==
        [fp |-> [f EXCEPT !.bufpos = k.ret, !.pos = k.ret, !.ptr = NULL, !.end = NULL],
         os |-> k.os, ret |-> k.ret]
  IN  Sought(SysSeek(o, pos))

\* cupsFileSeek(fp, pos)
cupsFileSeek(f, o, pos) ==
  IF ~SeekModeOk(f) \/ pos < 0 THEN [fp |-> f, os |-> o, ret |-> -1]
  ELSE IF pos = 0 THEN cupsFileRewind(f, o)
  ELSE IF f.ptr # NULL /\ InWindow(pos, f.bufpos, f.end)
    THEN [fp |-> [f EXCEPT !.pos = pos, !.ptr = pos - f.bufpos, !.eof = FALSE], os |-> o, ret |-> pos]
  ELSE
    LET Restart(f1, k) ==
          SeekFill([f1 EXCEPT !.stream.z = zEnd(@), !.bufpos = 0, !.pos = 0,
                              !.ptr = NULL, !.end = NULL],
                   k.os, pos)
        Move(f1, os1) ==
          IF f1.compressed THEN
            IF pos < f1.bufpos THEN Restart(f1, SysSeek(os1, 0))
            ELSE SeekFill(f1, os1, pos)
          ELSE SeekRaw(f1, os1, pos)
        Preloaded(p) ==
          IF p.ret <= 0 THEN [fp |-> p.fp, os |-> p.os, ret |-> -1]
          ELSE Move([p.fp EXCEPT !.eof = FALSE], p.os)
    IN  Preloaded(IF ~f.compressed /\ f.ptr = NULL THEN cups_fill(f, o)
                  ELSE [fp |-> f, os |-> o, ret |-> 1])

(***************************************************************************)
(* Inputs of the scenarios                                                 *)
(***************************************************************************)
\* data patterns over the bytes 'A' and 'B': one long run, strict
\* alternation, and runs longer than the codec packs into one token
Pattern(k, n) ==
  [i \in 1..n |-> CASE k = 0 -> 65
                    [] k = 1 -> IF i % 2 = 1 THEN 65 ELSE 66
                    [] OTHER -> IF i % 5 = 0 THEN 66 ELSE 65]

DataLens == {0, 1, 2, BufSize - 1, BufSize, BufSize + 1, 2 * BufSize, MaxBufs * BufSize + 1}

Datas == {Pattern(k, n) : k \in 0..2, n \in DataLens}

\* sizes of one write call: below, at and above the buffer capacity
WriteSizes == {1, 3, BufSize, BufSize + 1}

\* sizes of one read call
ReadSizes == {1, 5, BufSize, BufSize + 2}

NoCall == [op |-> "none", n |-> 0, ret |-> 0]

NoHist == [src |-> <<>>, todo |-> <<>>, taken |-> <<>>, got |-> <<>>, asked |-> <<>>,
           askedLen |-> 0, allok |-> TRUE, first |-> <<>>, firstret |-> 0, aux |-> 0,
           kind |-> "none", flushok |-> TRUE, drainok |-> TRUE, ops |-> 0,
           plan |-> <<>>, prior |-> <<>>]

\* the bytes a write operation took, judged by the position it counted
Took(f, r, data) == IF r.fp.pos > f.pos THEN data ELSE <<>>

(***************************************************************************)
(* Scenario RT: write data through a compressed handle in any split, close,*)
(* reopen the produced stream for reading and read it to the end           *)
(***************************************************************************)
RT_Init ==
  \E d \in Datas, level \in {"1", "6", "9"} :
    LET h == cupsFileOpenFd(NewOs(<<>>, <<>>, <<>>), 3, <<"w", level>>)
    IN  /\ fp = h.fp
        /\ os = h.os
        /\ call = NoCall
        /\ gh = [NoHist EXCEPT !.src = d, !.todo = d]
        /\ pc = "write"

RT_Write ==
  /\ pc = "write"
  /\ \E n \in WriteSizes :
       /\ n <= Len(gh.todo)
       /\ LET data == Take(gh.todo, n)
              r    == cupsFileWrite(fp, os, data)
          IN  /\ fp' = r.fp
              /\ os' = r.os
              /\ call' = [op |-> "Write", n |-> n, ret |-> B2I(r.ret)]
              /\ gh' = [gh EXCEPT !.todo = Drop(@, n), !.taken = @ \o Took(fp, r, data),
                                  !.allok = @ /\ r.ret]
              /\ pc' = pc

RT_Puts ==
  /\ pc = "write"
  /\ \E n \in WriteSizes :
       /\ n <= Len(gh.todo)
       /\ LET data == Take(gh.todo, n)
              r    == cupsFilePuts(fp, os, data)
          IN  /\ fp' = r.fp
              /\ os' = r.os
              /\ call' = [op |-> "Puts", n |-> n, ret |-> B2I(r.ret)]
              /\ gh' = [gh EXCEPT !.todo = Drop(@, n), !.taken = @ \o Took(fp, r, data),
                                  !.allok = @ /\ r.ret]
              /\ pc' = pc

RT_PutChar ==
  /\ pc = "write"
  /\ gh.todo # <<>>
  /\ LET r == cupsFilePutChar(fp, os, Head(gh.todo))
     IN  /\ fp' = r.fp
         /\ os' = r.os
         /\ call' = [op |-> "PutChar", n |-> 1, ret |-> B2I(r.ret)]
         /\ gh' = [gh EXCEPT !.todo = Tail(@), !.taken = @ \o Took(fp, r, <<Head(gh.todo)>>),
                             !.allok = @ /\ r.ret]
         /\ pc' = pc

RT_Close ==
  /\ pc = "write"
  /\ gh.todo = <<>>
  /\ LET r == cupsFileClose(fp, os)
     IN  /\ fp' = r.fp
         /\ os' = r.os
         /\ call' = [op |-> "Close", n |-> 0, ret |-> B2I(r.ret)]
         /\ gh' = [gh EXCEPT !.allok = @ /\ r.ret]
         /\ pc' = IF r.hangs THEN "hung" ELSE "closed"

\* open the produced file for reading
RT_Reopen ==
  /\ pc = "closed"
  /\ LET h == cupsFileOpenFd(NewOs(os.out, <<>>, <<>>), 4, <<"r">>)
     IN  /\ fp' = h.fp
         /\ os' = h.os
         /\ call' = [op |-> "Open", n |-> 0, ret |-> B2I(~IsNull(h.fp))]
         /\ gh' = gh
         /\ pc' = "read"

RT_Read ==
  /\ pc = "read"
  /\ \E n \in ReadSizes :
       LET r == cupsFileRead(fp, os, n)
       IN  /\ fp' = r.fp
           /\ os' = r.os
           /\ call' = [op |-> "Read", n |-> n, ret |-> r.ret]
           /\ gh' = [gh EXCEPT !.got = @ \o r.data]
           /\ pc' = IF r.ret < 0 THEN "done" ELSE pc

RT_GetChar ==
  /\ pc = "read"
  /\ LET r == cupsFileGetChar(fp, os)
     IN  /\ fp' = r.fp
         /\ os' = r.os
         /\ call' = [op |-> "GetChar", n |-> 1, ret |-> r.ret]
         /\ gh' = [gh EXCEPT !.got = @ \o r.data]
         /\ pc' = IF r.ret < 0 THEN "done" ELSE pc

RT_Next ==
  \/ RT_Write
  \/ RT_Puts
  \/ RT_PutChar
  \/ RT_Close
  \/ RT_Reopen
  \/ RT_Read
  \/ RT_GetChar

SpecRT == RT_Init /\ [][RT_Next]_vars

\* C1: data written through a compressed write handle in any split of
\* Write/Puts/PutChar calls, closed, and read back to the end of the file is
\* delivered unchanged, and the reader then reports end of file, not an error.
C1_RoundTrip ==
  pc = "done" =>
    /\ gh.got = gh.src
    /\ fp.eof
    /\ os.errno = 0
    /\ os.off = Len(os.file)

\* a stream of several buffers was written in pieces and read back to its end
C1_Witness ==
  /\ pc = "done"
  /\ Len(gh.src) > 2 * BufSize
  /\ Len(os.file) > 2 * BufSize
  /\ gh.got = gh.src

(***************************************************************************)
(* Files offered to read handles                                           *)
(***************************************************************************)
\* the stream the library produces for data d: open "w9", write, close
Produced(d) ==
  LET h == cupsFileOpenFd(NewOs(<<>>, <<>>, <<>>), 3, <<"w", "9">>)
      w == cupsFileWrite(h.fp, h.os, d)
      c == cupsFileClose(w.fp, w.os)
  IN  c.os.out

\* byte b with bit k inverted
FlipBit(b, k) ==
  LET w == IF k = 0 THEN 1 ELSE IF k = 1 THEN 2 ELSE IF k = 2 THEN 4 ELSE IF k = 3 THEN 8
           ELSE IF k = 4 THEN 16 ELSE IF k = 5 THEN 32 ELSE IF k = 6 THEN 64 ELSE 128
  IN  IF (b \div w) % 2 = 1 THEN b - w ELSE b + w

\* a produced stream with bit k of byte i (1..4) of the trailer CRC inverted
CorruptCrc(file, i, k) ==
  LET at == Len(file) - TrailerLen + i
  IN  [j \in 1..Len(file) |-> IF j = at THEN FlipBit(file[j], k) ELSE file[j]]

\* data of the members read back: short, one buffer, across buffers
MemberLens == {0, 1, 2, BufSize, BufSize + 1, 2 * BufSize + 1}

MemberDatas == {Pattern(k, n) : k \in 1..2, n \in MemberLens}

\* files that carry no gzip header: short ones, text, and near misses of the
\* magic, the method and the flag byte
PlainFiles ==
  {Pattern(k, n) : k \in 0..2, n \in {0, 1, HeaderLen - 1, BufSize, BufSize + 1, 2 * BufSize + 3}}
  \cup {Take(Produced(<<65, 66>>), HeaderLen - 1),
        <<31, 139, 9>> \o Drop(Produced(<<65, 66>>), 3),
        <<31, 139, 8, 32>> \o Drop(Produced(<<65, 66>>), 4),
        <<30>> \o Drop(Produced(Pattern(1, BufSize + 1)), 1)}

\* each file with the content a reader is to receive and the kind of file
FileCases ==
  {[file |-> f, src |-> f, kind |-> "plain"] : f \in PlainFiles}
  \cup {[file |-> Produced(d), src |-> d, kind |-> "gzip"] : d \in MemberDatas}
  \cup {[file |-> Produced(a) \o Produced(b), src |-> a \o b, kind |-> "concat"] :
          a \in {<<65>>, Pattern(1, BufSize + 1)}, b \in {<<66>>, Pattern(2, BufSize)}}
  \cup {[file |-> CorruptCrc(Produced(d), i, k), src |-> d, kind |-> "corrupt"] :
          d \in {<<>>, <<65, 66>>, Pattern(1, BufSize), Pattern(1, 2 * BufSize + 1)},
          i \in 1..4, k \in 0..7}

(***************************************************************************)
(* Scenario SQ: open a file for reading and read it to the end             *)
(***************************************************************************)
SQ_Init ==
  \E c \in FileCases :
    LET h == cupsFileOpenFd(NewOs(c.file, <<>>, <<>>), 4, <<"r">>)
    IN  /\ fp = h.fp
        /\ os = h.os
        /\ call = NoCall
        /\ gh = [NoHist EXCEPT !.src = c.src, !.kind = c.kind]
        /\ pc = "read"

SQ_Read ==
  /\ pc = "read"
  /\ \E n \in ReadSizes :
       LET r == cupsFileRead(fp, os, n)
       IN  /\ fp' = r.fp
           /\ os' = r.os
           /\ call' = [op |-> "Read", n |-> n, ret |-> r.ret]
           /\ gh' = [gh EXCEPT !.got = @ \o r.data]
           /\ pc' = IF r.ret < 0 THEN "done" ELSE pc

SQ_GetChar ==
  /\ pc = "read"
  /\ LET r == cupsFileGetChar(fp, os)
     IN  /\ fp' = r.fp
         /\ os' = r.os
         /\ call' = [op |-> "GetChar", n |-> 1, ret |-> r.ret]
         /\ gh' = [gh EXCEPT !.got = @ \o r.data]
         /\ pc' = IF r.ret < 0 THEN "done" ELSE pc

SQ_Next ==
  \/ SQ_Read
  \/ SQ_GetChar

SpecSQ == SQ_Init /\ [][SQ_Next]_vars

\* C2: a file made of two gzip members is read as the first member's data
\* followed by the second member's data.
C2_Concatenation == (pc = "done" /\ gh.kind = "concat") => gh.got = gh.src

\* C3: with a bit of the trailer CRC inverted, the reader still receives all
\* of the member's data, and then fails with an error and eof set.
C3_CorruptionAfterData ==
  (pc = "done" /\ gh.kind = "corrupt") => (gh.got = gh.src /\ fp.eof /\ os.errno = EIO)

\* the gzip test stated on the file: at least 10 bytes, magic 1F 8B, method
\* 8, no reserved flag bit
HasGzipHeader(file) ==
  /\ Len(file) >= 10
  /\ file[1] = 31 /\ file[2] = 139 /\ file[3] = 8 /\ file[4] < 32

\* C5: a file whose first bytes are fewer than 10 or carry no valid gzip
\* magic/method/flags is delivered byte for byte, each byte once and in order.
C5_Passthrough ==
  (pc = "done" /\ ~HasGzipHeader(os.file)) => (gh.got = os.file /\ ~fp.compressed)

\* a near miss of the gzip header, longer than a buffer, was read to its end
C5_Witness ==
  /\ pc = "done"
  /\ ~HasGzipHeader(os.file)
  /\ Len(os.file) > BufSize
  /\ os.file[2] = 139
  /\ gh.got = os.file

(***************************************************************************)
(* Scenario SK: read N bytes, go back to position 0, read N bytes again    *)
(***************************************************************************)
\* N inside the first buffer, at its end, in a later buffer, past the end
SeekNs == {1, 5, BufSize, BufSize + 2, 2 * BufSize + 1, (MaxBufs + 2) * BufSize}

SK_Init ==
  \E c \in FileCases, n \in SeekNs :
    LET h == cupsFileOpenFd(NewOs(c.file, <<>>, <<>>), 4, <<"r">>)
    IN  /\ fp = h.fp
        /\ os = h.os
        /\ call = NoCall
        /\ gh = [NoHist EXCEPT !.src = c.src, !.kind = c.kind, !.aux = n]
        /\ pc = "start"

SK_Read1 ==
  /\ pc = "start"
  /\ LET r == cupsFileRead(fp, os, gh.aux)
     IN  /\ fp' = r.fp
         /\ os' = r.os
         /\ call' = [op |-> "Read", n |-> gh.aux, ret |-> r.ret]
         /\ gh' = [gh EXCEPT !.first = r.data, !.firstret = r.ret]
         /\ pc' = "read1"

SK_Rewind ==
  /\ pc = "read1"
  /\ LET r == cupsFileRewind(fp, os)
     IN  /\ fp' = r.fp
         /\ os' = r.os
         /\ call' = [op |-> "Rewind", n |-> 0, ret |-> r.ret]
         /\ gh' = gh
         /\ pc' = "rewound"

SK_Seek0 ==
  /\ pc = "read1"
  /\ LET r == cupsFileSeek(fp, os, 0)
     IN  /\ fp' = r.fp
         /\ os' = r.os
         /\ call' = [op |-> "Seek", n |-> 0, ret |-> r.ret]
         /\ gh' = gh
         /\ pc' = "rewound"

SK_Read2 ==
  /\ pc = "rewound"
  /\ LET r == cupsFileRead(fp, os, gh.aux)
     IN  /\ fp' = r.fp
         /\ os' = r.os
         /\ call' = [op |-> "Read", n |-> gh.aux, ret |-> r.ret]
         /\ gh' = [gh EXCEPT !.got = r.data]
         /\ pc' = "done"

SK_Next ==
  \/ SK_Read1
  \/ SK_Rewind
  \/ SK_Seek0
  \/ SK_Read2

SpecSK == SK_Init /\ [][SK_Next]_vars

\* C4: reading N bytes, seeking to position 0 (cupsFileSeek(fp, 0) or
\* cupsFileRewind) and reading N bytes again returns the same bytes and the
\* same count as the first read, on compressed and on uncompressed files.
C4_SeekIdempotence ==
  pc = "done" => (gh.got = gh.first /\ call.ret = gh.firstret)

\* a compressed file was read into a later buffer, rewound by a real seek, and
\* read again
C4_Witness ==
  /\ pc = "done"
  /\ gh.kind = "gzip"
  /\ gh.firstret > BufSize
  /\ os.nio > 4
  /\ gh.got = gh.first

(***************************************************************************)
(* Scenario WR: a write handle, compressed or not, whose descriptor may    *)
(* fail, interrupt or shorten write calls; any mix of write operations,    *)
(* then close                                                              *)
(***************************************************************************)
\* index of the last write call a plan may fail
MaxFaultAt == 4

\* number of operations of a run before its close
MaxOps == 3

Oks(n) == [i \in 1..n |-> "ok"]

WPlans ==
  {<<>>, <<"eintr">>, <<"short">>, <<"ok", "short", "eintr">>}
  \cup {Oks(k) \o <<"err">> : k \in 0..MaxFaultAt}

WRDatas == {Pattern(1, n) : n \in {1, 3, BufSize + 1, 2 * BufSize + 1}}

\* rendered sizes of the formatted writes; the last one is over the cap
PrintfLens == {0, 2, BufSize + 1, PrintfMax + 1}

\* the value time(NULL) returns: the bytes 01 02 03 04
CurTime == 16909060

\* write and append modes, with the name the history keeps for each
WRModes ==
  {[m |-> <<"w">>, kind |-> "w"], [m |-> <<"w", "9">>, kind |-> "w9"],
   [m |-> <<"w", "0">>, kind |-> "w0"], [m |-> <<"a">>, kind |-> "a"],
   [m |-> <<"a", "9">>, kind |-> "a9"]}

\* the descriptor number 3 on a file that holds prior, and the path of a
\* regular file
WRDescriptor(prior, wp) == [NewOs(<<>>, <<>>, wp) EXCEPT !.out = prior, !.time = CurTime]

WRPath(wp) ==
  [NewFs([type |-> "file", ino |-> 1], FsInodes(1)) EXCEPT !.wplan = wp, !.time = CurTime]

\* the handle comes from cupsFileOpenFd on a descriptor or from cupsFileOpen
\* on a path
WR_Init ==
  \E d \in WRDatas, c \in WRModes, wp \in WPlans, via \in {"fd", "path"} :
    LET Opened(h, prior) ==
          /\ fp = h.fp
          /\ os = h.os
          /\ call = NoCall
          /\ gh = [NoHist EXCEPT !.src = d, !.todo = d, !.kind = c.kind,
                                 !.plan = wp, !.prior = prior]
          /\ pc = "write"
    IN  IF via = "fd"
          THEN Opened(cupsFileOpenFd(WRDescriptor(IF c.m[1] = "a" THEN <<88>> ELSE <<>>, wp), 3, c.m),
                      IF c.m[1] = "a" THEN <<88>> ELSE <<>>)
          ELSE Opened(cupsFileOpen(OpenFrame(c.m), WRPath(wp)),
                      IF c.m[1] = "a" THEN FsInodes(1)[1].data ELSE <<>>)

\* the history after a write operation that was handed data and returned ok
Wrote(h, f, r, data, len, used) ==
  [h EXCEPT !.todo = Drop(@, used),
            !.ops = @ + 1,
            !.taken = @ \o Took(f, r, data),
            !.asked = IF r.ret THEN @ \o data ELSE @,
            !.askedLen = IF r.ret THEN @ + len ELSE @,
            !.allok = @ /\ r.ret]

WR_Write ==
  /\ pc = "write"
  /\ gh.ops < MaxOps
  /\ \E n \in WriteSizes :
       /\ n <= Len(gh.todo)
       /\ LET data == Take(gh.todo, n)
              r    == cupsFileWrite(fp, os, data)
          IN  /\ fp' = r.fp
              /\ os' = r.os
              /\ call' = [op |-> "Write", n |-> n, ret |-> B2I(r.ret)]
              /\ gh' = Wrote(gh, fp, r, data, n, n)
              /\ pc' = pc

WR_Puts ==
  /\ pc = "write"
  /\ gh.ops < MaxOps
  /\ \E n \in WriteSizes :
       /\ n <= Len(gh.todo)
       /\ LET data == Take(gh.todo, n)
              r    == cupsFilePuts(fp, os, data)
          IN  /\ fp' = r.fp
              /\ os' = r.os
              /\ call' = [op |-> "Puts", n |-> n, ret |-> B2I(r.ret)]
              /\ gh' = Wrote(gh, fp, r, data, n, n)
              /\ pc' = pc

WR_PutChar ==
  /\ pc = "write"
  /\ gh.ops < MaxOps
  /\ gh.todo # <<>>
  /\ LET r == cupsFilePutChar(fp, os, Head(gh.todo))
     IN  /\ fp' = r.fp
         /\ os' = r.os
         /\ call' = [op |-> "PutChar", n |-> 1, ret |-> B2I(r.ret)]
         /\ gh' = Wrote(gh, fp, r, <<Head(gh.todo)>>, 1, 1)
         /\ pc' = pc

\* a formatted write whose rendering is the next len bytes of the data, or,
\* over the cap, a text too long to be rendered at all (once per run)
WR_Printf ==
  /\ pc = "write"
  /\ gh.ops < MaxOps
  /\ \E len \in PrintfLens :
       /\ len <= PrintfMax => len <= Len(gh.todo)
       /\ len > PrintfMax => gh.aux = 0
       /\ LET data == IF len <= PrintfMax THEN Take(gh.todo, len) ELSE <<>>
              r    == cupsFilePrintf(fp, os, len, data)
          IN  /\ fp' = r.fp
              /\ os' = r.os
              /\ call' = [op |-> "Printf", n |-> len, ret |-> B2I(r.ret)]
              /\ gh' = [Wrote(gh, fp, r, data, len, Len(data)) EXCEPT
                          !.aux = IF len > PrintfMax THEN 1 ELSE @]
              /\ pc' = pc

WR_Flush ==
  /\ pc = "write"
  /\ gh.ops < MaxOps
  /\ LET r == cupsFileFlush(fp, os)
     IN  /\ fp' = r.fp
         /\ os' = r.os
         /\ call' = [op |-> "Flush", n |-> 0, ret |-> B2I(r.ret)]
         /\ gh' = [gh EXCEPT !.allok = @ /\ r.ret, !.ops = @ + 1]
         /\ pc' = pc

WR_Close ==
  /\ pc = "write"
  /\ LET r == cupsFileClose(fp, os)
     IN  /\ fp' = r.fp
         /\ os' = r.os
         /\ call' = [op |-> "Close", n |-> 0, ret |-> B2I(r.ret)]
         /\ gh' = [gh EXCEPT !.allok = @ /\ r.ret, !.flushok = r.flushok, !.drainok = r.drainok]
         /\ pc' = IF r.hangs THEN "hung" ELSE "closed"

WR_Next ==
  \/ WR_Write
  \/ WR_Puts
  \/ WR_PutChar
  \/ WR_Printf
  \/ WR_Flush
  \/ WR_Close

SpecWR == WR_Init /\ [][WR_Next]_vars

\* C6: on an uncompressed write handle, when every write operation and the
\* close returned success, the descriptor received exactly the data of the
\* calls, in call order, each byte once.
C6_AllWrittenInOrder ==
  (pc = "closed" /\ gh.kind = "w" /\ gh.allok) =>
    (os.out = gh.asked /\ Len(os.out) = gh.askedLen)

\* C7: after a successful close of a compressed write handle the last 8
\* bytes on the descriptor are the CRC of all bytes the handle took, then
\* their number modulo 2^32, both little-endian.
C7_Trailer ==
  (pc = "closed" /\ gh.kind = "w9" /\ call.ret = 1) =>
    /\ Len(os.out) >= TrailerLen
    /\ Drop(os.out, Len(os.out) - TrailerLen)
         = crc32(CrcInit, gh.taken) \o LE32(Len(gh.taken))
    /\ fp.pos = Len(gh.taken)

\* a compressed handle took data both through the buffer and past it and
\* was closed successfully
C7_Witness ==
  /\ pc = "closed"
  /\ gh.kind = "w9"
  /\ call.ret = 1
  /\ Len(gh.taken) > 2 * BufSize
  /\ gh.todo = <<>>
  /\ gh.taken = gh.src

\* C8: when the final flush or a write of the drain loop fails while a
\* compressed write handle is closed, Close returns false, and the handle is
\* still released: compressor ended, memory freed, descriptor closed.
C8_CloseFailure ==
  (pc = "closed" /\ gh.kind = "w9" /\ (~gh.flushok \/ ~gh.drainok)) =>
    /\ call.ret = 0
    /\ os.freed
    /\ os.closed
    /\ fp.stream.z.kind = "none"

(***************************************************************************)
(* Scenario OP: a handle of any mode over a descriptor whose reads may     *)
(* fail; any operation in any order, then close                            *)
(***************************************************************************)
ReadOps == {"Read", "GetChar", "PeekChar", "Gets", "GetLine", "GetConf"}

WriteOps == {"Write", "Puts", "PutChar", "Printf", "Flush"}

SeekOps == {"Seek", "Rewind"}

\* the value an operation returns when it fails, as recorded in call.ret
Sentinel(op) == IF op \in {"Read", "GetChar", "PeekChar", "Seek", "Rewind"} THEN -1 ELSE 0

OPModes == {<<"r">>, <<"w">>, <<"w", "9">>, <<"s">>}

OPFiles ==
  {<<65, 66>>,
   <<65, LF, 66, 32, 67, LF>> \o Pattern(1, BufSize),
   Produced(Pattern(1, 3)),
   CorruptCrc(Produced(Pattern(1, 3)), 1, 1)}

\* the last plan interrupts the third read call, which on the produced file
\* is the read of the trailer bytes that were not yet in cbuf
RPlans == {<<>>, <<"err">>, <<"ok", "err">>, <<"eintr">>, <<"ok", "ok", "eintr">>}

OPWPlans == {<<>>, <<"eintr">>, <<"ok", "eagain">>}

OP_Init ==
  \E m \in OPModes, file \in OPFiles, rp \in RPlans, wp \in OPWPlans :
    LET h == cupsFileOpenFd(NewOs(file, rp, wp), 3, m)
    IN  /\ rp = <<>> \/ wp = <<>>
        /\ fp = h.fp
        /\ os = h.os
        /\ call = NoCall
        /\ gh = [NoHist EXCEPT !.src = file, !.kind = m[1]]
        /\ pc = "open"

\* the step of an operation that returned r and delivered data to its caller
Did(r, op, n, ret, data) ==
  /\ fp' = r.fp
  /\ os' = r.os
  /\ call' = [op |-> op, n |-> n, ret |-> ret]
  /\ gh' = [gh EXCEPT !.ops = @ + 1, !.got = @ \o data]
  /\ pc' = pc

OP_Ready == pc = "open" /\ gh.ops < MaxOps

OP_Read ==
  /\ OP_Ready
  /\ \E n \in {0, 1, BufSize + 1} :
       LET r == cupsFileRead(fp, os, n) IN Did(r, "Read", n, r.ret, r.data)

OP_GetChar ==
  /\ OP_Ready
  /\ LET r == cupsFileGetChar(fp, os) IN Did(r, "GetChar", 0, r.ret, r.data)

OP_PeekChar ==
  /\ OP_Ready
  /\ LET r == cupsFilePeekChar(fp, os) IN Did(r, "PeekChar", 0, r.ret, <<>>)

OP_Gets ==
  /\ OP_Ready
  /\ \E n \in {3, BufSize + 4} :
       LET r == cupsFileGets(fp, os, n) IN Did(r, "Gets", n, B2I(~r.null), r.line)

OP_GetLine ==
  /\ OP_Ready
  /\ LET r == cupsFileGetLine(fp, os, BufSize + 4)
     IN  Did(r, "GetLine", BufSize + 4, r.ret, r.line)

OP_GetConf ==
  /\ OP_Ready
  /\ LET r == cupsFileGetConf(fp, os, BufSize + 4)
     IN  Did(r, "GetConf", BufSize + 4, B2I(~r.null), r.buf \o r.value)

OP_Write ==
  /\ OP_Ready
  /\ \E n \in {2, BufSize + 1} :
       LET r == cupsFileWrite(fp, os, Pattern(1, n)) IN Did(r, "Write", n, B2I(r.ret), <<>>)

OP_Puts ==
  /\ OP_Ready
  /\ LET r == cupsFilePuts(fp, os, Pattern(1, 3)) IN Did(r, "Puts", 3, B2I(r.ret), <<>>)

OP_PutChar ==
  /\ OP_Ready
  /\ LET r == cupsFilePutChar(fp, os, 67) IN Did(r, "PutChar", 1, B2I(r.ret), <<>>)

OP_Printf ==
  /\ OP_Ready
  /\ \E n \in {0, 2} :
       LET r == cupsFilePrintf(fp, os, n, Pattern(1, n)) IN Did(r, "Printf", n, B2I(r.ret), <<>>)

OP_Flush ==
  /\ OP_Ready
  /\ LET r == cupsFileFlush(fp, os) IN Did(r, "Flush", 0, B2I(r.ret), <<>>)

OP_Seek ==
  /\ OP_Ready
  /\ \E pos \in {0, 1, BufSize + 2} :
       LET r == cupsFileSeek(fp, os, pos) IN Did(r, "Seek", pos, r.ret, <<>>)

OP_Rewind ==
  /\ OP_Ready
  /\ LET r == cupsFileRewind(fp, os) IN Did(r, "Rewind", 0, r.ret, <<>>)

OP_Close ==
  /\ pc = "open"
  /\ LET r == cupsFileClose(fp, os)
     IN  /\ fp' = r.fp
         /\ os' = r.os
         /\ call' = [op |-> "Close", n |-> 0, ret |-> B2I(r.ret)]
         /\ gh' = gh
         /\ pc' = IF r.hangs THEN "hung" ELSE "closed"

OP_Next ==
  \/ OP_Read
  \/ OP_GetChar
  \/ OP_PeekChar
  \/ OP_Gets
  \/ OP_GetLine
  \/ OP_GetConf
  \/ OP_Write
  \/ OP_Puts
  \/ OP_PutChar
  \/ OP_Printf
  \/ OP_Flush
  \/ OP_Seek
  \/ OP_Rewind
  \/ OP_Close

SpecOP == OP_Init /\ [][OP_Next]_vars

\* the bytes a write operation of this scenario passes to the handle
DataOf(op, n) ==
  CASE op = "Write"   -> Pattern(1, n)
    [] op = "Puts"    -> Pattern(1, 3)
    [] op = "PutChar" -> <<67>>
    [] op = "Printf"  -> Pattern(1, 2)
    [] OTHER          -> <<>>

\* operation op with argument n of this scenario applied to handle f on
\* descriptor o: the handle and the descriptor after it, the value recorded
\* in call.ret and the data delivered to the caller
Perform(op, n, f, o) ==
  LET Num(r)  == [fp |-> r.fp, os |-> r.os, ret |-> r.ret, data |-> <<>>]
      Bool(r) == [fp |-> r.fp, os |-> r.os, ret |-> B2I(r.ret), data |-> <<>>]
      Line(r) == [fp |-> r.fp, os |-> r.os, ret |-> B2I(~r.null), data |-> r.line]
      Conf(r) == [fp |-> r.fp, os |-> r.os, ret |-> B2I(~r.null), data |-> r.buf \o r.value]
      Chunk(r) == [fp |-> r.fp, os |-> r.os, ret |-> r.ret, data |-> r.line]
  IN  CASE op = "Read"     -> cupsFileRead(f, o, n)
        [] op = "GetChar"  -> cupsFileGetChar(f, o)
        [] op = "PeekChar" -> cupsFilePeekChar(f, o)
        [] op = "Gets"     -> Line(cupsFileGets(f, o, n))
        [] op = "GetLine"  -> Chunk(cupsFileGetLine(f, o, n))
        [] op = "GetConf"  -> Conf(cupsFileGetConf(f, o, n))
        [] op = "Write"    -> Bool(cupsFileWrite(f, o, DataOf(op, n)))
        [] op = "Puts"     -> Bool(cupsFilePuts(f, o, DataOf(op, n)))
        [] op = "PutChar"  -> Bool(cupsFilePutChar(f, o, 67))
        [] op = "Printf"   -> Bool(cupsFilePrintf(f, o, n, DataOf(op, n)))
        [] op = "Flush"    -> Bool(cupsFileFlush(f, o))
        [] op = "Seek"     -> Num(cupsFileSeek(f, o, n))
        [] OTHER           -> Num(cupsFileRewind(f, o))

\* the plan without its interrupted calls
Calm(plan) == SelectSeq(plan, LAMBDA k : k \notin {"eintr", "eagain"})

\* the descriptor as it behaves when no call is interrupted
Undisturbed(o) == [o EXCEPT !.rplan = Calm(@), !.wplan = Calm(@)]

\* whether operation op asks for a direction the handle's mode does not have
WrongDirection(op, f) ==
  \/ op \in ReadOps /\ f.mode = "w"
  \/ op \in WriteOps /\ f.mode = "r"
  \/ op \in SeekOps /\ f.mode \in {"w", "s"}

\* C9: an operation on a handle of the wrong mode returns its failure
\* sentinel, issues no descriptor I/O and changes no handle field; no
\* operation before the close changes the mode.
C9_ModeRejection ==
  [][/\ pc' = "open" => fp'.mode = fp.mode
     /\ (pc' = "open" /\ WrongDirection(call'.op, fp)) =>
          (fp' = fp /\ os' = os /\ gh'.got = gh.got /\ call'.ret = Sentinel(call'.op))]_vars

\* a read operation was refused on a write handle that holds buffered data
\* after another operation had been refused before it
C9_Witness ==
  /\ pc = "open"
  /\ gh.ops = MaxOps
  /\ call.op \in ReadOps
  /\ fp.mode = "w"
  /\ fp.ptr > 0
  /\ call.ret = Sentinel(call.op)
  /\ os.nio = B2I(fp.compressed)

\* C10: once eof is set, every read operation returns its sentinel, issues
\* no read on the descriptor, delivers no data and leaves eof set.
C10_EofSticky ==
  [][(pc' = "open" /\ fp.eof /\ call'.op \in ReadOps) =>
       (fp'.eof /\ os'.nio = os.nio /\ gh'.got = gh.got /\ call'.ret = Sentinel(call'.op))]_vars

\* C11: an operation on a descriptor whose calls are interrupted (EINTR,
\* EAGAIN) and succeed when retried has the result it has on the same
\* descriptor without the interruptions: same return value, same data
\* delivered, same handle, same bytes on the descriptor, same read offset.
C11_TransientInvisible ==
  [][LET Same(c) ==
           /\ call'.ret = c.ret
           /\ gh'.got = gh.got \o c.data
           /\ fp' = c.fp
           /\ os'.out = c.os.out
           /\ os'.off = c.os.off
     IN  pc' = "open" =>
           Same(Perform(call'.op, call'.n, fp, Undisturbed(os)))]_vars

\* the write operations that carry bytes
PutOps == {"Write", "Puts", "PutChar", "Printf"}

\* C12: on a socket-mode handle a write operation that succeeds has put its
\* bytes on the socket, after everything sent before, when it returns; it
\* changes nothing of the handle but the position (and the size of the
\* formatting scratch), so no outbound byte stays in the buffer; one that
\* fails has sent at most a leading part of its bytes; and a read operation
\* sends nothing and holds back nothing.
C12_SocketWritesImmediate ==
  [][(pc' = "open" /\ fp.mode = "s") =>
       /\ (call'.op \in PutOps /\ call'.ret = 1) =>
            /\ os'.out = os.out \o DataOf(call'.op, call'.n)
            /\ fp' = [fp EXCEPT !.pos = @ + Len(DataOf(call'.op, call'.n)),
                                !.printf_size = fp'.printf_size]
       /\ (call'.op \in PutOps /\ call'.ret = 0) =>
            /\ \E k \in 0..Len(DataOf(call'.op, call'.n)) :
                 os'.out = os.out \o Take(DataOf(call'.op, call'.n), k)
            /\ fp' = [fp EXCEPT !.printf_size = fp'.printf_size]
       /\ call'.op \in ReadOps => os'.out = os.out]_vars

\* on a socket a write, a read that delivered data and a single-character
\* write followed one another, and both writes are on the socket
C12_Witness ==
  /\ pc = "open"
  /\ fp.mode = "s"
  /\ gh.ops = MaxOps
  /\ call.op = "PutChar"
  /\ call.ret = 1
  /\ gh.got # <<>>
  /\ Len(os.out) > 1
  /\ os.out[Len(os.out)] = 67

(***************************************************************************)
(* Scenario FO: cupsFileOpen on a path, one system call at a time, while   *)
(* another process may change what the path names between the calls        *)
(***************************************************************************)
\* number of changes the other process makes during one call
MaxAttacks == 2

\* mode strings with the permissions their m### suffix asks for (octal 600,
\* 640, 644), or 0664 without a suffix
FOModes ==
  {[m |-> <<"w">>, want |-> 436],
   [m |-> <<"a">>, want |-> 436],
   [m |-> <<"r">>, want |-> 436],
   [m |-> <<"w", "9">>, want |-> 436],
   [m |-> <<"a", "9">>, want |-> 436],
   [m |-> <<"w", "m", "6", "0", "0">>, want |-> 384],
   [m |-> <<"w", "9", "m", "6", "4", "0">>, want |-> 416],
   [m |-> <<"a", "m", "6", "4", "4">>, want |-> 420]}

\* what the path names at the start: nothing, a regular file, a file with a
\* second hard link, a directory, and symbolic links to each of them and to
\* nothing
FsWorlds ==
  {NewFs(NoEntry, FsInodes(1)),
   NewFs([type |-> "file", ino |-> 1], FsInodes(1)),
   NewFs([type |-> "file", ino |-> 1], FsInodes(2)),
   NewFs([type |-> "file", ino |-> 3], FsInodes(1)),
   NewFs([type |-> "link", ino |-> 1], FsInodes(1)),
   NewFs([type |-> "link", ino |-> 1], FsInodes(2)),
   NewFs([type |-> "link", ino |-> 3], FsInodes(1)),
   NewFs([type |-> "link", ino |-> 0], FsInodes(1))}

FO_Init ==
  \E c \in FOModes, w \in FsWorlds :
    /\ fp = NullFile
    /\ os = w
    /\ call = OpenFrame(c.m)
    /\ gh = [inodes0 |-> w.inodes, entry0 |-> w.entry, attacks |-> 0, want |-> c.want]
    /\ pc = "start"

\* the next step of the cupsFileOpen call
FO_Step ==
  /\ pc # "done"
  /\ LET Stepped(t) ==
           /\ fp' = t.c.fp
           /\ os' = t.os
           /\ call' = t.c
           /\ pc' = t.c.pc
     IN  Stepped(OpenStep(call, os))
  /\ gh' = gh

\* the path is made to name e; the file it named loses that name
Renamed(o, e) ==
  [o EXCEPT !.entry = e,
            !.inodes = IF o.entry.type = "file"
                         THEN [@ EXCEPT ![o.entry.ino].nlink = @ - 1]
                         ELSE @]

FO_Attacking ==
  /\ pc \in {"open", "fstat", "lstat", "trunc", "openfd"}
  /\ gh.attacks < MaxAttacks
  /\ gh' = [gh EXCEPT !.attacks = @ + 1]
  /\ UNCHANGED <<fp, call, pc>>

\* the other process puts a symbolic link in place of the path
FO_Symlink ==
  /\ FO_Attacking
  /\ \E k \in {1, 2} : os' = Renamed(os, [type |-> "link", ino |-> k])

\* the other process moves its own file onto the path
FO_Rename ==
  /\ FO_Attacking
  /\ os.entry # [type |-> "file", ino |-> 2]
  /\ os' = Renamed(os, [type |-> "file", ino |-> 2])

\* the other process gives a file one more name
FO_Link ==
  /\ FO_Attacking
  /\ \E k \in {1, 2, NewIno} :
       /\ os.inodes[k].kind = "reg"
       /\ os' = [os EXCEPT !.inodes[k].nlink = @ + 1]

\* the other process removes the path
FO_Unlink ==
  /\ FO_Attacking
  /\ os.entry.type # "none"
  /\ os' = Renamed(os, NoEntry)

FO_Next ==
  \/ FO_Step
  \/ FO_Symlink
  \/ FO_Rename
  \/ FO_Link
  \/ FO_Unlink

SpecFO == FO_Init /\ [][FO_Next]_vars

\* C14: with a mode suffix m### cupsFileOpen passes exactly the octal value
\* ### to open() as the creation permissions, and 0664 without a suffix; a
\* file the call creates gets those permissions
C14_SuffixPermissions ==
  /\ (pc # "start" /\ ModeOk(call.mode)) => call.perm = gh.want
  /\ (gh.attacks = 0 /\ os.inodes[NewIno].kind = "reg") => os.inodes[NewIno].perm = gh.want

\* the path named, when the call began, a directory, a file with a link
\* count other than 1, or a symbolic link to a file or directory
RejectedKind ==
  /\ gh.entry0.ino # 0
  /\ \/ gh.entry0.type = "link"
     \/ gh.inodes0[gh.entry0.ino].kind = "dir"
     \/ gh.inodes0[gh.entry0.ino].nlink # 1

PathIsDescriptor ==
  LET Both(li, fi) ==
        /\ li.ok
        /\ li.mode # "lnk"
        /\ li.ino = fi.ino
        /\ li.nlink = fi.nlink
        /\ li.mode = fi.mode
  IN  Both(FsLstat(os), FsFstat(os))

\* C18: whatever another process does to the path between open, fstat and
\* lstat, cups_open returns the descriptor only if at the time of lstat the
\* path is not a symbolic link and names the same inode, link count and mode
\* as the descriptor; otherwise the descriptor is closed and cups_open fails
C18_SafeOpenRace ==
  [][pc = "lstat" /\ pc' # "lstat" =>
       /\ pc' \in {"trunc", "openfd"} =>
            /\ PathIsDescriptor
            /\ call'.fd = call.fd
            /\ os' = os
       /\ ~PathIsDescriptor =>
            /\ call'.fd = -1
            /\ os'.fds = os.fds - 1
            /\ os'.closed]_vars

C18_Witness ==
  /\ pc = "done"
  /\ gh.attacks > 0
  /\ gh.entry0 = [type |-> "file", ino |-> 1]
  /\ gh.inodes0[1].nlink = 1
  /\ call.fileinfo.ino = 1
  /\ os.entry.type = "link"
  /\ IsNull(fp)
  /\ os.fds = 0
  /\ os.errno = EPERM

\* the descriptor holds what it held before the open, then only bytes of
\* the data, no more of them than the handle took
OnlyData ==
  /\ Len(os.out) >= Len(gh.prior)
  /\ Take(os.out, Len(gh.prior)) = gh.prior
  /\ Len(os.out) <= Len(gh.prior) + Len(gh.taken)
  /\ \A i \in (Len(gh.prior) + 1)..Len(os.out) : os.out[i] \in {65, 66}

\* C13: an append handle is never compressed and no gzip header or trailer
\* is written for it: the descriptor receives the data after what the file
\* held and nothing else; a mode of a followed by a digit yields no handle,
\* from cupsFileOpen and from cupsFileOpenFd, and touches nothing
C13_AppendNeverCompressed ==
  /\ gh.kind = "a" =>
       /\ ~IsNull(fp)
       /\ ~fp.compressed
       /\ fp.stream = NullStream
       /\ OnlyData
       /\ call = NoCall => (fp.pos = Len(gh.prior) /\ os.out = gh.prior)
       /\ (pc = "closed" /\ gh.allok /\ gh.aux = 0) => os.out = gh.prior \o gh.asked
  /\ gh.kind = "a9" =>
       /\ IsNull(fp)
       /\ os.wplan = gh.plan
       /\ os.nio = 0
       /\ IF "inodes" \in DOMAIN os
            THEN os.inodes = FsInodes(1) /\ os.fds = 0
            ELSE os.out = gh.prior

\* an append handle on a file with content took more than a buffer of data
\* and was closed
C13_Witness ==
  /\ pc = "closed"
  /\ gh.kind = "a"
  /\ call.ret = 1
  /\ gh.prior = <<65, 66>>
  /\ Len(gh.taken) > BufSize
  /\ os.out = gh.prior \o gh.taken

\* the first write call of the run does not fail for good
HeaderWritten == gh.plan = <<>> \/ Head(gh.plan) # "err"

MaxStdioOps == 5

\* the accessor of descriptor i with mode m: the handle is made on the
\* first call only
StdioFile(files, i, m) ==
  LET Made(h) == IF IsNull(h.fp) THEN h.fp ELSE [h.fp EXCEPT !.is_stdio = TRUE]
  IN  IF IsNull(files[i]) THEN Made(cupsFileOpenFd(NewOs(<<>>, <<>>, <<>>), i, m))
      ELSE files[i]

cupsFileStdin(files) == [files EXCEPT ![0] = StdioFile(files, 0, <<"r">>)]

cupsFileStdout(files) == [files EXCEPT ![1] = StdioFile(files, 1, <<"w">>)]

cupsFileStderr(files) == [files EXCEPT ![2] = StdioFile(files, 2, <<"w">>)]

\* what standard input holds: text, and the compressed form of a text
\* longer than a buffer
StdinFiles ==
  {[file |-> Pattern(1, BufSize + 3), src |-> Pattern(1, BufSize + 3)],
   [file |-> Produced(Pattern(1, BufSize + 3)), src |-> Pattern(1, BufSize + 3)]}

SD_Init ==
  \E c \in StdinFiles :
    /\ fp = [i \in 0..2 |-> NullFile]
    /\ os = [i \in 0..2 |-> NewOs(IF i = 0 THEN c.file ELSE <<>>, <<>>, <<>>)]
    /\ call = NoCall
    /\ gh = [src |-> c.src, got |-> <<>>, ops |-> 0,
             made |-> [i \in 0..2 |-> 0],
             closes |-> [i \in 0..2 |-> 0],
             asked |-> [i \in 0..2 |-> <<>>]]
    /\ pc = "stdio"

\* cupsFileStdin(), cupsFileStdout() or cupsFileStderr()
SD_Access ==
  /\ pc = "stdio"
  /\ gh.ops < MaxStdioOps
  /\ \E i \in 0..2 :
       /\ fp' = CASE i = 0 -> cupsFileStdin(fp)
                  [] i = 1 -> cupsFileStdout(fp)
                  [] OTHER -> cupsFileStderr(fp)
       /\ call' = [op |-> "Stdio", n |-> i, ret |-> B2I(~IsNull(fp'[i]))]
       /\ gh' = [gh EXCEPT !.ops = @ + 1,
                           !.made[i] = IF fp'[i] # fp[i] THEN @ + 1 ELSE @]
  /\ UNCHANGED <<os, pc>>

SD_Read ==
  /\ pc = "stdio"
  /\ gh.ops < MaxStdioOps
  /\ ~IsNull(fp[0])
  /\ \E n \in {2, 5} :
       LET Done(r) ==
             /\ fp' = [fp EXCEPT ![0] = r.fp]
             /\ os' = [os EXCEPT ![0] = r.os]
             /\ call' = [op |-> "Read", n |-> n, ret |-> r.ret]
             /\ gh' = [gh EXCEPT !.ops = @ + 1, !.got = @ \o r.data]
       IN  Done(cupsFileRead(fp[0], os[0], n))
  /\ pc' = pc

SD_Puts ==
  /\ pc = "stdio"
  /\ gh.ops < MaxStdioOps
  /\ \E i \in {1, 2}, n \in {1, BufSize + 1} :
       /\ ~IsNull(fp[i])
       /\ LET Done(r) ==
                /\ fp' = [fp EXCEPT ![i] = r.fp]
                /\ os' = [os EXCEPT ![i] = r.os]
                /\ call' = [op |-> "Puts", n |-> i, ret |-> B2I(r.ret)]
                /\ gh' = [gh EXCEPT !.ops = @ + 1,
                                    !.asked[i] = IF r.ret THEN @ \o Pattern(1, n) ELSE @]
          IN  Done(cupsFilePuts(fp[i], os[i], Pattern(1, n)))
  /\ pc' = pc

SD_Close ==
  /\ pc = "stdio"
  /\ gh.ops < MaxStdioOps
  /\ \E i \in 0..2 :
       /\ ~IsNull(fp[i])
       /\ LET Done(r) ==
                /\ fp' = [fp EXCEPT ![i] = r.fp]
                /\ os' = [os EXCEPT ![i] = r.os]
                /\ call' = [op |-> "Close", n |-> i, ret |-> B2I(r.ret)]
                /\ gh' = [gh EXCEPT !.ops = @ + 1, !.closes[i] = @ + 1]
          IN  Done(cupsFileClose(fp[i], os[i]))
  /\ pc' = pc

SD_Next ==
  \/ SD_Access
  \/ SD_Read
  \/ SD_Puts
  \/ SD_Close

SpecSD == SD_Init /\ [][SD_Next]_vars

\* each handle is made once at most, belongs to its descriptor, and its
\* descriptor is never closed nor its memory freed
StdioKept ==
  \A i \in 0..2 :
    /\ gh.made[i] <= 1
    /\ ~os[i].closed
    /\ ~os[i].freed
    /\ ~IsNull(fp[i]) => (fp[i].is_stdio /\ fp[i].fd = i /\ gh.made[i] = 1)

\* a close of an output handle leaves nothing in its buffer
StdioFlushed ==
  (call.op = "Close" /\ call.n \in {1, 2}) =>
    (call.ret = 1 /\ os[call.n].out = gh.asked[call.n])

\* reading standard input delivers its content in order, and a read falls
\* short only where the content ends
StdinReadable ==
  /\ gh.got = Take(gh.src, Len(gh.got))
  /\ (call.op = "Read" /\ call.ret < call.n) => gh.got = gh.src

\* C16: the three standard handles are made on first access only and the
\* accessor returns the same handle afterwards; cupsFileClose on one of them
\* flushes but neither closes the descriptor nor frees the handle, and the
\* handle works as before after any number of closes
C16_StdioSurvivesClose ==
  /\ StdioKept
  /\ StdioFlushed
  /\ StdinReadable

(***************************************************************************)
(* Scenario LN: a read handle on a text with every kind of line end, read  *)
(* line by line with cupsFileGets and cupsFileGetLine into buffers of      *)
(* several sizes                                                           *)
(***************************************************************************)
\* texts: a CR that is the last byte of the first fill with its LF in the
\* next, a NUL byte, an empty line, a bare CR, a CR as the last byte; a CRLF
\* and a line longer than a buffer with no line end after it; a CR at the
\* end of a fill followed by text; a single LF; nothing
LineFiles ==
  {Pattern(1, BufSize - 1) \o <<CR, LF, 66, 0, 67, LF, LF, 68, CR, 69, CR>>,
   <<65, CR, LF, 66, LF>> \o Pattern(1, BufSize) \o <<67>>,
   Pattern(0, BufSize - 1) \o <<CR, 66, 66>>,
   <<LF>>,
   <<>>}

\* sizes of the caller's buffer; cupsFileGets wants 2 at least,
\* cupsFileGetLine 3
GetsLens == {2, 4, BufSize + 4}

GetLineLens == {3, 4, BufSize + 4}

LN_Init ==
  \E file \in LineFiles :
    LET Opened(h) ==
          /\ fp = h.fp
          /\ os = h.os
          /\ call = NoCall
          /\ gh = [NoHist EXCEPT !.src = file]
          /\ pc = "lines"
    IN  Opened(cupsFileOpenFd(NewOs(file, <<>>, <<>>), 3, <<"r">>))

\* cupsFileGets; the history keeps the line, and notes in aux that the text
\* is no longer read with cupsFileGetLine alone
LN_Gets ==
  /\ pc = "lines"
  /\ \E n \in GetsLens :
       LET Done(r) ==
             /\ fp' = r.fp
             /\ os' = r.os
             /\ call' = [op |-> "Gets", n |-> n, ret |-> B2I(~r.null)]
             /\ gh' = [gh EXCEPT !.first = r.line, !.aux = 1, !.got = <<>>]
             /\ pc' = IF r.null THEN "eof" ELSE pc
       IN  Done(cupsFileGets(fp, os, n))

\* cupsFileGetLine; the history appends the chunk to got as long as the
\* text is read with it alone
LN_GetLine ==
  /\ pc = "lines"
  /\ \E n \in GetLineLens :
       LET Done(r) ==
             /\ fp' = r.fp
             /\ os' = r.os
             /\ call' = [op |-> "GetLine", n |-> n, ret |-> r.ret]
             /\ gh' = [gh EXCEPT !.first = r.line,
                                 !.got = IF gh.aux = 0 THEN @ \o Take(r.line, r.ret) ELSE <<>>]
             /\ pc' = IF r.ret = 0 THEN "eof" ELSE pc
       IN  Done(cupsFileGetLine(fp, os, n))

LN_Next ==
  \/ LN_Gets
  \/ LN_GetLine

SpecLN == LN_Init /\ [][LN_Next]_vars

\* the number of bytes at the start of s that are neither CR nor LF
LeadLen(s) ==
  IF \E i \in 1..Len(s) : s[i] \in {CR, LF}
    THEN (CHOOSE i \in 1..Len(s) : s[i] \in {CR, LF} /\ \A j \in 1..(i - 1) : s[j] \notin {CR, LF}) - 1
    ELSE Len(s)

\* the length of the line end s starts with: CR LF counts 2, a CR or an LF
\* alone 1, anything else 0
TermLen(s) ==
  IF s = <<>> THEN 0
  ELSE IF s[1] = LF THEN 1
  ELSE IF s[1] = CR THEN (IF Len(s) >= 2 /\ s[2] = LF THEN 2 ELSE 1)
  ELSE 0

\* C19: cupsFileGets returns NULL only when nothing of the stream is left;
\* otherwise it stores the bytes before the next CR, LF or CRLF, buflen-1
\* of them at most, and consumes them and, when the line was not cut at the
\* buffer limit, the whole line end and nothing after it
C19_GetsLine ==
  [][call'.op = "Gets" =>
       LET Line(rest, room, k) ==
             IF rest = <<>>
               THEN call'.ret = 0 /\ fp'.pos = fp.pos
             ELSE /\ call'.ret = 1
                  /\ gh'.first = Take(rest, Min(k, room))
                  /\ Len(gh'.first) <= call'.n - 1
                  /\ fp'.pos = fp.pos + (IF k >= room THEN room
                                         ELSE k + TermLen(Drop(rest, k)))
       IN  Line(Drop(gh.src, fp.pos), call'.n - 1, LeadLen(Drop(gh.src, fp.pos)))]_vars

\* a call took the first line of the first text, whose CR is the last byte
\* of the first fill and whose LF is the first byte of the second
C19_Witness ==
  /\ call.op = "Gets"
  /\ call.ret = 1
  /\ call.n = BufSize + 4
  /\ gh.src = Pattern(1, BufSize - 1) \o <<CR, LF, 66, 0, 67, LF, LF, 68, CR, 69, CR>>
  /\ gh.first = Pattern(1, BufSize - 1)
  /\ fp.pos = BufSize + 1
  /\ os.nio = 2

\* C20: cupsFileGetLine returns 0 only when nothing of the stream is left;
\* otherwise the chunk is the next bytes of the stream up to and including
\* the first CR, LF or CRLF, or buflen-2 bytes when no line end comes
\* sooner, never more than buflen-1 bytes; the chunks of a text read with
\* it alone make up the text
C20_GetLineLossless ==
  [][call'.op = "GetLine" =>
       LET Chunk(rest, room, k) ==
             /\ call'.ret = 0 <=> rest = <<>>
             /\ call'.ret = Len(gh'.first)
             /\ call'.ret <= call'.n - 1
             /\ gh'.first = Take(rest, IF k >= room THEN room ELSE k + TermLen(Drop(rest, k)))
             /\ fp'.pos = fp.pos + call'.ret
             /\ gh'.aux = 0 => gh'.got = Take(gh.src, fp'.pos)
             /\ (gh'.aux = 0 /\ call'.ret = 0) => gh'.got = gh.src
       IN  Chunk(Drop(gh.src, fp.pos), call'.n - 2, LeadLen(Drop(gh.src, fp.pos)))]_vars

\* the first text was read with cupsFileGetLine alone until it returned 0
C20_Witness ==
  /\ pc = "eof"
  /\ call.op = "GetLine"
  /\ call.ret = 0
  /\ gh.aux = 0
  /\ gh.got = Pattern(1, BufSize - 1) \o <<CR, LF, 66, 0, 67, LF, LF, 68, CR, 69, CR>>

(***************************************************************************)
(* Scenario CF: a configuration file of a few skipped lines and one line   *)
(* of interest, read with cupsFileGetConf                                  *)
(***************************************************************************)
\* length of the generated lines
MaxLineLen == 4

\* size of the caller's line buffer
ConfBufLen == 32

\* k, space, #, backslash, < and >
ConfChars == {107, 32, 35, 92, 60, 62}

\* "key value # comment", "key value \#literal", "<section>",
\* "<k v> # c", "k \#a # c", "<k v>  "
ExampleLines ==
  {<<107, 101, 121, 32, 118, 97, 108, 117, 101, 32, 35, 32, 99, 111, 109, 109, 101, 110, 116>>,
   <<107, 101, 121, 32, 118, 97, 108, 117, 101, 32, 92, 35, 108, 105, 116, 101, 114, 97, 108>>,
   <<60, 115, 101, 99, 116, 105, 111, 110, 62>>,
   <<60, 107, 32, 118, 62, 32, 35, 32, 99>>,
   <<107, 32, 92, 35, 97, 32, 35, 32, 99>>,
   <<60, 107, 32, 118, 62, 32, 32>>}

ConfLines == UNION {[1..n -> ConfChars] : n \in 0..MaxLineLen} \cup ExampleLines

\* lines before the line of interest: none, or an empty line, a comment
\* and a line of whitespace
ConfPrefixes == {<<>>, <<<<>>, <<35, 32, 107>>, <<32, 9>>>>}

RECURSIVE JoinLines(_)
JoinLines(ls) == IF ls = <<>> THEN <<>> ELSE Head(ls) \o <<LF>> \o JoinLines(Tail(ls))

CF_Init ==
  \E pre \in ConfPrefixes, line \in ConfLines :
    LET Opened(h) ==
          /\ fp = h.fp
          /\ os = h.os
          /\ call = NoCall
          /\ gh = [line |-> line, skipped |-> Len(pre), calls |-> 0, linenum |-> 0,
                   null |-> FALSE, buf |-> <<>>, hasvalue |-> FALSE, value |-> <<>>]
          /\ pc = "conf"
    IN  Opened(cupsFileOpenFd(NewOs(JoinLines(Append(pre, line)), <<>>, <<>>), 3, <<"r">>))

\* cupsFileGetConf(fp, buf, sizeof(buf), &value, &linenum)
CF_GetConf ==
  /\ pc = "conf"
  /\ LET Done(r) ==
           /\ fp' = r.fp
           /\ os' = r.os
           /\ call' = [op |-> "GetConf", n |-> ConfBufLen, ret |-> B2I(~r.null)]
           /\ gh' = [gh EXCEPT !.calls = @ + 1, !.linenum = @ + r.lines, !.null = r.null,
                               !.buf = r.buf, !.hasvalue = r.hasvalue, !.value = r.value]
           /\ pc' = IF r.null THEN "eof" ELSE pc
     IN  Done(cupsFileGetConf(fp, os, ConfBufLen))

CF_Next == CF_GetConf

SpecCF == CF_Init /\ [][CF_Next]_vars

\* index of the first # of s that does not follow a backslash, 0 if none
RECURSIVE CommentAt(_, _)
CommentAt(sq, i) ==
  IF i > Len(sq) THEN 0
  ELSE IF sq[i] = 35 /\ (i = 1 \/ sq[i - 1] # 92) THEN i
  ELSE CommentAt(sq, i + 1)

\* s with every backslash that stands before a # removed
RECURSIVE Unescaped(_)
Unescaped(sq) ==
  IF sq = <<>> THEN <<>>
  ELSE IF Len(sq) >= 2 /\ sq[1] = 92 /\ sq[2] = 35 THEN <<35>> \o Unescaped(Tail(Tail(sq)))
  ELSE <<Head(sq)>> \o Unescaped(Tail(sq))

\* a line without its comment and the whitespace around what is left
Uncommented(line) ==
  LET Cut(h) == IF h = 0 THEN line ELSE SubSeq(line, 1, h - 1)
  IN  RStrip(LStrip(Unescaped(RStrip(Cut(CommentAt(line, 1))))))

\* the text before the first whitespace, and the text after that whitespace
Directive(t) == IF FirstSpace(t, 1) = 0 THEN t ELSE SubSeq(t, 1, FirstSpace(t, 1) - 1)

ValueText(t) == IF FirstSpace(t, 1) = 0 THEN <<>> ELSE LStrip(SubSeq(t, FirstSpace(t, 1), Len(t)))

\* the first call has returned
FirstConf == gh.calls = 1

\* C21: the comment, from the first # that does not follow a backslash, and
\* the whitespace before it are removed, every backslash-# becomes #; a line
\* with nothing left is skipped but counted; what is left is split at the
\* first whitespace into directive and value, trailing whitespace removed
C21_Comments ==
  FirstConf =>
    LET Is(t) ==
          IF t = <<>> THEN gh.null /\ gh.linenum = gh.skipped + 1
          ELSE /\ ~gh.null
               /\ gh.linenum = gh.skipped + 1
               /\ t[1] # 60 =>
                    /\ gh.buf = Directive(t)
                    /\ gh.hasvalue = (ValueText(t) # <<>>)
                    /\ gh.value = ValueText(t)
    IN  Is(Uncommented(gh.line))

\* the line as the directive/value split finds it
ConfText == LStrip(ConfComment(gh.line))

\* C22: when the directive begins with < and the last token of the line
\* ends with >, that > is removed from what is returned, whether the line
\* has a value or not
C22_SectionClose ==
  FirstConf =>
    LET Is(t) ==
          (t # <<>> /\ t[1] = 60 /\ t[Len(t)] = 62) =>
            /\ ~gh.null
            /\ IF FirstSpace(t, 1) = 0
                 THEN gh.buf = SubSeq(t, 1, Len(t) - 1) /\ ~gh.hasvalue
                 ELSE /\ gh.buf = Directive(t)
                      /\ gh.hasvalue
                      /\ gh.value = RStrip(SubSeq(ValueText(t), 1, Len(ValueText(t)) - 1))
    IN  Is(RStrip(ConfText))

C24_PrintfCap ==
  [][(pc = "write" /\ call'.op = "Printf" /\ ~IsNull(fp)) =>
       LET Capacity == IF fp.printf_size = 0 THEN PrintfInitial ELSE fp.printf_size
       IN  /\ call'.n > PrintfMax =>
                /\ call'.ret = 0
                /\ os' = os
                /\ fp'.pos = fp.pos
                /\ fp'.ptr = fp.ptr
                /\ fp'.buf = fp.buf
           /\ (call'.n <= PrintfMax /\ call'.n >= Capacity) => fp'.printf_size = call'.n + 1
           /\ (call'.n <= PrintfMax /\ call'.ret = 1) => fp'.pos = fp.pos + call'.n]_vars

(***************************************************************************)
(* cupsFileFind and scenario FF: a search path, the files that exist, and  *)
(* one call.  File names are sequences of characters; os is the set of     *)
(* names that exist and the set of those that are executable.              *)
(***************************************************************************)
\* length of the search paths
MaxPathLen == 4

\* size of the caller's buffer
FindBufSize == 8

\* the null path argument and a path string
NoPath == [null |-> TRUE, s |-> <<>>]

PathOf(s) == [null |-> FALSE, s |-> s]

\* access(name, X_OK) when x, access(name, 0) otherwise: 0 means granted
access(world, name, x) ==
  IF name \in world.exec \/ (~x /\ name \in world.plain) THEN 0 ELSE -1

\* cupsCopyString(dst, src, size): at most size - 1 characters
cupsCopyString(src, size) == IF size < 1 THEN <<>> ELSE Take(src, size - 1)

\* the name cupsFileFind builds in the buffer from the directory gathered
\* in buf: a slash if the directory does not end with one, then the name
FindName(buf, filename, bufend) ==
  LET Joined(b) == b \o cupsCopyString(filename, bufend - Len(b))
  IN  Joined(IF buf # <<>> /\ buf[Len(buf)] # "/" /\ Len(buf) < bufend
               THEN Append(buf, "/") ELSE buf)

\* "Check the last path...": the test after the loop
FindLast(world, name, executable) ==
  IF access(world, name, FALSE) = 0 THEN [null |-> FALSE, name |-> name]
  ELSE [null |-> TRUE, name |-> <<>>]

\* the loop of cupsFileFind over the characters of the path; buf is what
\* has been gathered of the current directory
RECURSIVE FindLoop(_, _, _, _, _, _)
FindLoop(world, filename, path, executable, bufend, buf) ==
  IF path = <<>> THEN FindLast(world, FindName(buf, filename, bufend), executable)
  ELSE IF Head(path) \in {";", ":"} THEN
    IF access(world, FindName(buf, filename, bufend), executable) = 0
      THEN [null |-> FALSE, name |-> FindName(buf, filename, bufend)]
      ELSE FindLoop(world, filename, Tail(path), executable, bufend, <<>>)
  ELSE FindLoop(world, filename, Tail(path), executable, bufend,
                IF Len(buf) < bufend THEN Append(buf, Head(path)) ELSE buf)

\* cupsFileFind(filename, path, executable, buffer, bufsize): null says
\* that NULL is returned, name is the text left in the buffer otherwise
cupsFileFind(world, filename, path, executable, bufsize) ==
  IF bufsize < 2 THEN [null |-> TRUE, name |-> <<>>]
  ELSE IF path.null THEN
    IF access(world, filename, FALSE) = 0
      THEN [null |-> FALSE, name |-> cupsCopyString(filename, bufsize)]
      ELSE [null |-> TRUE, name |-> <<>>]
  ELSE FindLoop(world, filename, path.s, executable, bufsize - 1, <<>>)

\* the file looked for, and the places it may be in
FindFile == <<"f">>

FindPlaces == {<<"f">>, <<"a", "/", "f">>, <<"b", "/", "f">>}

\* every way for the file to be absent, present or executable in each place
FindWorlds ==
  {[plain |-> p, exec |-> x] : p \in SUBSET FindPlaces, x \in SUBSET FindPlaces}

\* the null path, every string of directory letters and separators, and
\* directories written with a slash
FindPaths ==
  {NoPath}
    \cup {PathOf(s) : s \in UNION {[1..n -> {"a", "b", ":", ";"}] : n \in 0..MaxPathLen}}
    \cup {PathOf(<<"a", "/", ":", "b">>), PathOf(<<"b", ";", "a", "/">>)}

FF_Init ==
  \E w \in FindWorlds, p \in FindPaths, x \in BOOLEAN :
    /\ w.exec \subseteq w.plain
    /\ fp = NullFile
    /\ os = w
    /\ call = NoCall
    /\ gh = [path |-> p, executable |-> x, null |-> TRUE, name |-> <<>>]
    /\ pc = "find"

FF_Find ==
  /\ pc = "find"
  /\ LET Done(r) ==
           /\ call' = [op |-> "Find", n |-> FindBufSize, ret |-> B2I(~r.null)]
           /\ gh' = [gh EXCEPT !.null = r.null, !.name = r.name]
     IN  Done(cupsFileFind(os, FindFile, gh.path, gh.executable, FindBufSize))
  /\ pc' = "found"
  /\ UNCHANGED <<fp, os>>

FF_Next == FF_Find

SpecFF == FF_Init /\ [][FF_Next]_vars

\* the directories of a path string, in order; an empty one stands for the
\* current directory
RECURSIVE Directories(_, _)
Directories(path, dir) ==
  IF path = <<>> THEN <<dir>>
  ELSE IF Head(path) \in {";", ":"} THEN <<dir>> \o Directories(Tail(path), <<>>)
  ELSE Directories(Tail(path), Append(dir, Head(path)))

\* the name of the file in a directory
InDirectory(dir, filename) ==
  IF dir = <<>> THEN filename
  ELSE IF dir[Len(dir)] = "/" THEN dir \o filename
  ELSE dir \o <<"/">> \o filename

\* the file exists under this name and is executable if that is asked for
Qualifies(name) == name \in os.plain /\ (gh.executable => name \in os.exec)

\* C25: cupsFileFind returns the name built from the first directory of the
\* list in which the file exists and, if asked for, is executable, whatever
\* the place of that directory in the list, and NULL when there is none;
\* with a null path only the current directory is looked at
C25_FindFirst ==
  pc = "found" =>
    IF gh.path.null
      THEN /\ ~gh.null => (gh.name = FindFile /\ FindFile \in os.plain)
           /\ gh.null => ~Qualifies(FindFile)
    ELSE LET Is(dirs) ==
               IF \E i \in 1..Len(dirs) : Qualifies(InDirectory(dirs[i], FindFile))
                 THEN /\ ~gh.null
                      /\ \E i \in 1..Len(dirs) :
                           /\ gh.name = InDirectory(dirs[i], FindFile)
                           /\ Qualifies(gh.name)
                           /\ \A j \in 1..(i - 1) : ~Qualifies(InDirectory(dirs[j], FindFile))
               ELSE gh.null
         IN  Is(Directories(gh.path.s, <<>>))

(***************************************************************************)
(* Reads, the buffer and the position under scenario OP                    *)
(***************************************************************************)
\* the bytes a reader of the scenario's file is to see: the file itself, or
\* what the produced stream was made from
Content ==
  IF gh.src \in {Produced(Pattern(1, 3)), CorruptCrc(Produced(Pattern(1, 3)), 1, 1)}
    THEN Pattern(1, 3)
  ELSE gh.src

\* the handle has delivered the content in order from its start up to the
\* position
InOrder == fp.pos = Len(gh.got) /\ gh.got = Take(Content, fp.pos)

\* C26: cupsFileRead on a read or socket handle returns 0 for a request of
\* 0 bytes; when it returns k > 0 it has delivered exactly k bytes, no more
\* than were asked for, and the position has advanced by k, also when a fill
\* failed or the stream ended after the k bytes; on a handle that has taken
\* the stream in order from its start those are the k bytes of the content
\* that follow the ones taken; it returns -1 only when it delivered nothing,
\* and then the position is where it was.
C26_PartialReads ==
  [][(pc' = "open" /\ call'.op = "Read" /\ fp.mode \in {"r", "s"}) =>
       LET k == call'.ret
           new == Drop(gh'.got, Len(gh.got))
       IN  /\ k \in {-1} \cup 0..call'.n
           /\ call'.n = 0 => k = 0
           /\ k >= 0 => (Len(new) = k /\ fp'.pos = fp.pos + k)
           /\ k = -1 => (new = <<>> /\ fp'.pos = fp.pos)
           /\ (k > 0 /\ k < call'.n /\ InOrder) =>
                new = SubSeq(Content, fp.pos + 1, fp.pos + k)]_vars

C28_PositionInvariant ==
  (pc = "open" /\ fp.mode \in {"r", "s"} /\ fp.ptr # NULL) =>
    fp.pos = fp.bufpos + fp.ptr

\* C29: the position of a handle is 0 after an open for reading or writing
\* and the length of the file after an open for appending; no operation but
\* a seek or a rewind lowers it; a write operation that reports success for
\* n bytes and a read that returns n bytes raise it by n; a peek, a flush
\* and an operation refused for the mode of the handle leave it unchanged.
C29_TellMonotone ==
  /\ ~IsNull(fp) => fp.pos = IF gh.kind \in {"a", "a9"} THEN Len(gh.prior) ELSE 0
  /\ [][(pc' \in {"open", "write"} /\ ~IsNull(fp) /\ call'.op \notin SeekOps) =>
          /\ fp'.pos >= fp.pos
          /\ (call'.op \in PutOps /\ call'.ret = 1) => fp'.pos = fp.pos + call'.n
          /\ (call'.op = "Read" /\ call'.ret >= 0) => fp'.pos = fp.pos + call'.ret
          /\ (call'.op = "GetChar" /\ call'.ret >= 0) => fp'.pos = fp.pos + 1
          /\ call'.op \in {"PeekChar", "Flush"} => fp'.pos = fp.pos
          /\ WrongDirection(call'.op, fp) => fp'.pos = fp.pos]_vars

\* C30: a seek on a read handle to a target other than 0 that is at or after
\* the anchor of the buffer and before the anchor plus the buffered length
\* returns the target and changes nothing but the cursor, which becomes the
\* target minus the anchor, the position, which becomes the target, and eof,
\* which is cleared: the buffer, the anchor, the compressed flag and the
\* decompressor are as they were, and so is the descriptor, its offset and
\* the number of calls made on it.
C30_SeekInWindow ==
  [][(/\ pc' = "open"
      /\ call'.op = "Seek"
      /\ call'.n # 0
      /\ fp.mode = "r"
      /\ fp.ptr # NULL
      /\ fp.bufpos <= call'.n
      /\ call'.n < fp.bufpos + fp.end) =>
       /\ fp' = [fp EXCEPT !.ptr = call'.n - fp.bufpos, !.pos = call'.n, !.eof = FALSE]
       /\ os' = os
       /\ call'.ret = call'.n]_vars

\* after a read that went one byte into the second buffer, a seek to the
\* third byte of that buffer was served without a call on the descriptor
C30_Witness ==
  /\ pc = "open"
  /\ call.op = "Seek"
  /\ call.n = BufSize + 2
  /\ call.ret = BufSize + 2
  /\ gh.ops = 2
  /\ Len(gh.got) = BufSize + 1
  /\ fp.bufpos = BufSize
  /\ fp.ptr = 2
  /\ fp.pos = BufSize + 2
  /\ os.nio = 2

(***************************************************************************)
(* Scenario SG: a read handle over a gzip stream, a truncated one, a plain *)
(* file or a stream with a damaged header; reads, peeks, line reads, seeks *)
(* and rewinds in any order, then close                                    *)
(***************************************************************************)
\* number of operations before the close
MaxSeekOps == 4

\* a header with the original-name flag whose name is longer than what the
\* first read returns, followed by a member
LongNameHeader == <<31, 139, Z_DEFLATED, 8, 0, 0, 0, 0, 0, 3>> \o Rep(110, BufSize) \o <<0>>

\* a produced stream with bit k of byte i (1..4) of the trailer length
\* inverted
CorruptLength(file, i, k) ==
  LET at == Len(file) - 4 + i
  IN  [j \in 1..Len(file) |-> IF j = at THEN FlipBit(file[j], k) ELSE file[j]]

\* the files with the content a reader is to receive:
\*   gzip      one member, shorter than a buffer and two buffers long
\*   truncated a member cut after the tokens of BufSize + 1 bytes
\*   plain     no header at offset 0, with the bytes of a gzip stream at the
\*             offset BufSize + 2, and one without
\*   longname  the magic matches and the name field runs past the first read
\*   badlen    one member whose trailer has the right CRC and a wrong length
SGFiles ==
  {[file |-> Produced(Pattern(1, n)), src |-> Pattern(1, n), kind |-> "gzip"] :
     n \in {3, 2 * BufSize + 3}}
  \cup {[file |-> Take(Produced(Pattern(1, 2 * BufSize + 3)), HeaderLen + 2 * (BufSize + 1)),
         src |-> Pattern(1, BufSize + 1), kind |-> "truncated"]}
  \cup {[file |-> Pattern(1, BufSize + 2) \o Produced(<<67, 68>>),
         src |-> Pattern(1, BufSize + 2) \o Produced(<<67, 68>>), kind |-> "plain"],
        [file |-> Pattern(2, 2 * BufSize + 3), src |-> Pattern(2, 2 * BufSize + 3),
         kind |-> "plain"]}
  \cup {[file |-> LongNameHeader \o Drop(Produced(<<65, 66>>), HeaderLen), src |-> <<>>,
         kind |-> "longname"]}
  \cup {[file |-> CorruptLength(Produced(Pattern(1, 3)), 1, 2), src |-> Pattern(1, 3),
         kind |-> "badlen"]}

\* the descriptor: a file, a file whose first read fails, a pipe
SGEnvs == {"file", "readerr", "pipe"}

SeekTargets == {1, BufSize + 2, 2 * BufSize + 2}

SG_Init ==
  \E c \in SGFiles, e \in SGEnvs :
    LET h == cupsFileOpenFd([NewOs(c.file, IF e = "readerr" THEN <<"err">> ELSE <<>>, <<>>)
                               EXCEPT !.seekable = e # "pipe"], 4, <<"r">>)
    IN  /\ fp = h.fp
        /\ os = h.os
        /\ call = NoCall
        /\ gh = [NoHist EXCEPT !.src = c.src, !.kind = c.kind, !.plan = <<e>>]
        /\ pc = "open"

\* the step of an operation that returned r and delivered data; aux is 1
\* after a seek whose target was outside the buffer window, allok is TRUE
\* as long as the handle was neither sought nor rewound
SG_Did(r, op, n, ret, data, outside) ==
  /\ fp' = r.fp
  /\ os' = r.os
  /\ call' = [op |-> op, n |-> n, ret |-> ret]
  /\ gh' = [gh EXCEPT !.ops = @ + 1, !.got = data, !.aux = B2I(outside),
                      !.allok = @ /\ op \notin SeekOps]
  /\ pc' = pc

SG_Ready == pc = "open" /\ gh.ops < MaxSeekOps

SG_Read ==
  /\ SG_Ready
  /\ \E n \in {1, BufSize + 1} :
       LET r == cupsFileRead(fp, os, n) IN SG_Did(r, "Read", n, r.ret, r.data, FALSE)

SG_GetChar ==
  /\ SG_Ready
  /\ LET r == cupsFileGetChar(fp, os) IN SG_Did(r, "GetChar", 0, r.ret, r.data, FALSE)

SG_PeekChar ==
  /\ SG_Ready
  /\ LET r == cupsFilePeekChar(fp, os)
     IN  SG_Did(r, "PeekChar", 0, r.ret, IF r.ret >= 0 THEN <<r.ret>> ELSE <<>>, FALSE)

SG_Gets ==
  /\ SG_Ready
  /\ LET r == cupsFileGets(fp, os, BufSize + 4)
     IN  SG_Did(r, "Gets", BufSize + 4, B2I(~r.null), r.line, FALSE)

SG_GetLine ==
  /\ SG_Ready
  /\ LET r == cupsFileGetLine(fp, os, BufSize + 4)
     IN  SG_Did(r, "GetLine", BufSize + 4, r.ret, r.line, FALSE)

SG_Seek ==
  /\ SG_Ready
  /\ \E pos \in SeekTargets :
       LET r == cupsFileSeek(fp, os, pos)
       IN  SG_Did(r, "Seek", pos, r.ret, <<>>,
                  ~(fp.ptr # NULL /\ fp.bufpos <= pos /\ pos < fp.bufpos + fp.end))

SG_Rewind ==
  /\ SG_Ready
  /\ LET r == cupsFileRewind(fp, os) IN SG_Did(r, "Rewind", 0, r.ret, <<>>, FALSE)

SG_Close ==
  /\ pc = "open"
  /\ LET r == cupsFileClose(fp, os)
     IN  /\ fp' = r.fp
         /\ os' = r.os
         /\ call' = [op |-> "Close", n |-> 0, ret |-> B2I(r.ret)]
         /\ gh' = gh
         /\ pc' = "closed"

SG_Next ==
  \/ SG_Read
  \/ SG_GetChar
  \/ SG_PeekChar
  \/ SG_Gets
  \/ SG_GetLine
  \/ SG_Seek
  \/ SG_Rewind
  \/ SG_Close

SpecSG == SG_Init /\ [][SG_Next]_vars

\* C31: on a handle over a gzip stream, a seek to a target outside the
\* buffer window that succeeds returns the target, leaves the position at
\* the target and the cursor in a buffer of decompressed data (the
\* descriptor was not just moved to the target as a raw offset), and a read
\* that follows it returns the content from the target on.
C31_GzipSeek ==
  [][(pc' = "open" /\ gh.kind = "gzip") =>
       /\ (call'.op = "Seek" /\ gh'.aux = 1 /\ call'.ret >= 0) =>
            /\ call'.ret = call'.n
            /\ fp'.pos = call'.n
            /\ fp'.ptr # NULL
       /\ (/\ call.op = "Seek"
           /\ gh.aux = 1
           /\ call.ret >= 0
           /\ call.n < Len(gh.src)
           /\ call'.op = "Read") =>
            /\ call'.ret = Min(call'.n, Len(gh.src) - call.n)
            /\ gh'.got = SubSeq(gh.src, call.n + 1, call.n + call'.ret)]_vars

\* C32: on a handle over a gzip stream, whole or truncated, a seek to a
\* target at or after the end of the content that can be decompressed
\* returns -1, whatever was read or sought before.
C32_SeekPastEnd ==
  [][(/\ pc' = "open"
      /\ gh.kind \in {"gzip", "truncated"}
      /\ call'.op = "Seek"
      /\ call'.n >= Len(gh.src)) => call'.ret = -1]_vars

\* C33: on a handle over a file that does not begin with a gzip header, no
\* operation turns decompression on, and a read that returns k > 0 bytes
\* returns the k bytes of the file at the position, also after a seek or a
\* rewind and whatever the bytes at that offset are.
C33_PlainStaysPlain ==
  [][(pc' = "open" /\ gh.kind = "plain") =>
       /\ ~fp'.compressed
       /\ (call'.op = "Read" /\ call'.ret > 0) =>
            gh'.got = SubSeq(gh.src, fp.pos + 1, fp.pos + call'.ret)]_vars

\* C34: on a stream whose gzip magic matches and whose name field runs past
\* the bytes of the first read, every read operation returns its failure
\* value and delivers nothing, with eof set and decompression off, as long
\* as the handle is not sought or rewound.
C34_HeaderTruncation ==
  [][(/\ pc' = "open"
      /\ gh.kind = "longname"
      /\ gh.plan = <<"file">>
      /\ gh.allok
      /\ call'.op \in ReadOps) =>
       /\ gh'.got = <<>>
       /\ call'.ret = Sentinel(call'.op)
       /\ fp'.eof
       /\ ~fp'.compressed]_vars

\* C35: when a read reaches the end of a member whose trailer carries the
\* CRC of the data and a length that is not the number of bytes produced,
\* the member is rejected: the error is EIO and eof is set.
C35_TrailerLength ==
  [][(/\ pc' = "open"
      /\ gh.kind = "badlen"
      /\ gh.plan = <<"file">>
      /\ gh.ops = 0
      /\ call'.op = "Read"
      /\ call'.n > Len(gh.src)) =>
       (fp'.eof /\ os'.errno = EIO)]_vars

(***************************************************************************)
(* The compressor's scratch buffer under scenario WR                       *)
(***************************************************************************)
\* the compressed stream of data when it is deflated in one piece
Deflated(data) == deflate(deflateInit2(ZNone), data, 2 * Len(data) + 1, TRUE).out

C37_DecompressorLifecycle ==
  /\ ~fp.stream.z.misuse
  /\ pc = "closed" => fp.stream.z.kind = "none"

\* C38: a rewind of a read handle that returns 0 leaves the position at 0
\* and eof cleared, and a read that follows it delivers the content from
\* its first byte; a rewind that returns -1 leaves the position, the anchor,
\* the buffer and the compressed flag as they were.
C38_Rewind ==
  [][pc' = "open" =>
       /\ (call'.op = "Rewind" /\ call'.ret = 0) => (fp'.pos = 0 /\ ~fp'.eof)
       /\ (call'.op = "Rewind" /\ call'.ret = -1) =>
            /\ fp'.pos = fp.pos
            /\ fp'.bufpos = fp.bufpos
            /\ fp'.buf = fp.buf
            /\ fp'.ptr = fp.ptr
            /\ fp'.end = fp.end
            /\ fp'.compressed = fp.compressed
       /\ (/\ call.op = "Rewind"
           /\ call.ret = 0
           /\ gh.src # <<>>
           /\ call'.op = "Read") =>
            /\ call'.ret > 0
            /\ gh'.got = Take(gh.src, call'.ret)]_vars

\* C39: the value cupsFilePrintf returns tells what happened to the text:
\* true when the rendering was put into the buffer or sent, on a socket
\* handle whatever its length, the empty text included; false when the handle
\* does not take writes or the text was not written
C39_PrintfReturn ==
  [][(pc' = "open" /\ call'.op = "Printf") =>
       LET text == Pattern(1, call'.n)
           Sent == /\ fp.mode = "s"
                   /\ os'.out = os.out \o text
                   /\ fp'.pos = fp.pos + call'.n
       IN  /\ ~WriteModeOk(fp) => call'.ret = 0
           /\ call'.ret = 1 => fp'.pos = fp.pos + call'.n
           /\ Sent => call'.ret = 1]_vars
(***************************************************************************)
(* Scenario PC: one directive and value written with cupsFilePutConf to a  *)
(* write handle, the handle closed, and the file read back with            *)
(* cupsFileGetConf                                                         *)
(***************************************************************************)
\* length of the generated values
MaxValueLen == 4

\* a, #, backslash and space
ValueChars == {97, 35, 92, 32}

\* "k", "key" and "k\"
PCDirectives == {<<107>>, <<107, 101, 121>>, <<107, 92>>}

\* the values: no whitespace at either end
PCValues ==
  {v \in UNION {[1..n -> ValueChars] : n \in 0..MaxValueLen} :
     v = <<>> \/ (~IsSpace(v[1]) /\ ~IsSpace(v[Len(v)]))}

\* cupsFilePutConf(fp, directive, value): the value is the empty sequence
\* when the argument is NULL or ""
cupsFilePutConf(f, o, directive, value) ==
  IF IsNull(f) \/ directive = <<>> THEN [fp |-> f, os |-> o, ret |-> FALSE]
  ELSE
    LET Then(r, K(_, _)) ==
          IF ~r.ret THEN [fp |-> r.fp, os |-> r.os, ret |-> FALSE] ELSE K(r.fp, r.os)
        End(f1, o1) == cupsFilePutChar(f1, o1, LF)
        Rest(f1, o1) == Then(cupsFilePuts(f1, o1, Drop(value, IndexOf(value, 35, 1) - 1)), End)
        Quote(f1, o1) == Then(cupsFilePutChar(f1, o1, 92), Rest)
        Value(f1, o1) ==
          IF value = <<>> THEN End(f1, o1)
          ELSE IF IndexOf(value, 35, 1) # 0
            THEN Then(cupsFileWrite(f1, o1, Take(value, IndexOf(value, 35, 1) - 1)), Quote)
          ELSE Then(cupsFilePuts(f1, o1, value), End)
        Space(f1, o1) == Then(cupsFilePutChar(f1, o1, 32), Value)
    IN  Then(cupsFilePuts(f, o, directive), Space)

PC_Init ==
  \E d \in PCDirectives, v \in PCValues :
    LET Opened(h) ==
          /\ fp = h.fp
          /\ os = h.os
          /\ call = NoCall
          /\ gh = [d |-> d, v |-> v, putok |-> FALSE, null |-> FALSE, buf |-> <<>>,
                   hasvalue |-> FALSE, value |-> <<>>]
          /\ pc = "put"
    IN  Opened(cupsFileOpenFd(NewOs(<<>>, <<>>, <<>>), 3, <<"w">>))

PC_PutConf ==
  /\ pc = "put"
  /\ LET r == cupsFilePutConf(fp, os, gh.d, gh.v)
     IN  /\ fp' = r.fp
         /\ os' = r.os
         /\ call' = [op |-> "PutConf", n |-> Len(gh.v), ret |-> B2I(r.ret)]
         /\ gh' = [gh EXCEPT !.putok = r.ret]
         /\ pc' = "written"

PC_Close ==
  /\ pc = "written"
  /\ LET r == cupsFileClose(fp, os)
     IN  /\ fp' = r.fp
         /\ os' = r.os
         /\ call' = [op |-> "Close", n |-> 0, ret |-> B2I(r.ret)]
         /\ gh' = [gh EXCEPT !.putok = @ /\ r.ret]
         /\ pc' = "closed"

\* the file the first handle wrote is opened for reading
PC_Open ==
  /\ pc = "closed"
  /\ LET h == cupsFileOpenFd(NewOs(os.out, <<>>, <<>>), 4, <<"r">>)
     IN  /\ fp' = h.fp
         /\ os' = h.os
         /\ call' = [op |-> "OpenFd", n |-> 4, ret |-> B2I(~IsNull(h.fp))]
         /\ gh' = gh
         /\ pc' = "conf"

PC_GetConf ==
  /\ pc = "conf"
  /\ LET r == cupsFileGetConf(fp, os, ConfBufLen)
     IN  /\ fp' = r.fp
         /\ os' = r.os
         /\ call' = [op |-> "GetConf", n |-> ConfBufLen, ret |-> B2I(~r.null)]
         /\ gh' = [gh EXCEPT !.null = r.null, !.buf = r.buf, !.hasvalue = r.hasvalue,
                             !.value = r.value]
         /\ pc' = "done"

PC_Next ==
  \/ PC_PutConf
  \/ PC_Close
  \/ PC_Open
  \/ PC_GetConf

SpecPC == PC_Init /\ [][PC_Next]_vars

\* C40: a directive without whitespace, # or leading < and a value without
\* line ends and without whitespace at either end, written with
\* cupsFilePutConf and read back with cupsFileGetConf, come back as they
\* were, the value as NULL when it is empty; this includes values with
\* one or several # and with a backslash before a #
C40_ConfRoundTrip ==
  (pc = "done" /\ gh.putok) =>
    /\ ~gh.null
    /\ gh.buf = gh.d
    /\ gh.hasvalue <=> gh.v # <<>>
    /\ gh.value = gh.v

\* the value a\## was written and read back
C40_Witness ==
  /\ pc = "done"
  /\ gh.putok
  /\ gh.d = <<107, 101, 121>>
  /\ gh.v = <<97, 92, 35, 35>>
  /\ gh.hasvalue
  /\ gh.value = <<97, 92, 35, 35>>
====
